---------------------------- MODULE Spec2Model ----------------------------
(***************************************************************************)
(* A model of mcp-chromautomation: the browser managers of                 *)
(* internal/browser (Manager, EnhancedManager) and the MCP servers of      *)
(* internal/server that dispatch tool calls to them.                       *)
(*                                                                         *)
(* chromedp, browserhttp and mcp-go are libraries outside the repository.  *)
(* What the repository's code does with their results is modelled from the *)
(* code; the results themselves (a probe answering, a click failing, a     *)
(* cookie being rejected) are inputs chosen by the environment.            *)
(***************************************************************************)
EXTENDS Integers, Sequences, FiniteSets, TLC

(***************************************************************************)
(* Messages.  A Go error or message string is a sequence of fragments;     *)
(* fmt.Errorf("prefix: %w", err) and += are concatenation.                 *)
(***************************************************************************)
Contains(msg, frag) == \E i \in DOMAIN msg : msg[i] = frag

NoErr == << >>

\* The command Manager.Init prints and embeds in its error (manager.go:82,92).
RemediationCmd == "google-chrome --remote-debugging-port=9222"

(***************************************************************************)
(* The debug endpoints.                                                    *)
(***************************************************************************)
\* The candidate list visited from its far end.
portsReversed == << 9224, 9223, 9222 >>

\* ports := []string{"9222", "9223", "9224"}
ports == << 9222, 9223, 9224 >>

PortSet == { ports[i] : i \in DOMAIN ports }

\* The endpoint of the fallback allocator, "http://localhost:9222".
DefaultPort == 9222

\* A nil context.Context.
NilCtx == [port |-> 0, cancelled |-> FALSE]

VARIABLES
    \* ---- the browser processes on this host (environment)
    live,          \* live[p]: GET http://localhost:p/json answers 200
    verif,         \* verif[p]: Evaluate(window.location.href) on p succeeds
    ctxInherits,   \* chromedp: a context made by NewContext(allocCtx) is
                   \* cancelled when allocCtx is cancelled
    \* ---- browser.Manager (the legacy backend)
    mpc,           \* where Manager.Init is
    portIdx,       \* the index of the for loop of connectToExistingChrome
    mctx,          \* Manager.ctx
    attachVia,     \* "none", "probe" (a candidate port) or "fallback"
    minitErr,      \* the error Manager.Init returned (NoErr: nil)
    closeCalled,   \* Manager.Close has been called
    probed,        \* the ports connectToExistingChrome has sent its GET to
    opened,        \* the ports with a chromedp context or allocator of the
                   \* Manager that is not cancelled
    \* ---- browser.EnhancedManager (the rich backend)
    richOK,        \* "none", "ok" or "err": the result of EnhancedManager.Init
    spawned,       \* the backends whose browserhttp client.Init succeeded:
                   \* each launched a browser of its own (manager.go:178)
    \* ---- server.EnhancedMCPChromeServer
    spc,           \* where Start is
    startErr,      \* the error Start returned (NoErr: nil)
    richInits,     \* the number of calls of EnhancedManager.Init
    legacyInits,   \* the number of calls of Manager.Init
    lastCall,      \* the last tool call served and its result
    \* ---- the tab of the attached browser
    pageURL,       \* the document the tab shows or is loading
    pageReady,     \* its body is ready
    present,       \* the selectors that match a visible element of it
    jar,           \* the cookies the browser holds
    rejects,       \* the cookies the browser refuses to set
    \* ---- concurrent calls of Manager.Navigate
    cpc,           \* cpc[c]: where call c is
    carg,          \* carg[c]: its url
    cres,          \* cres[c]: its NavigateResult
    loads,         \* loads[c]: the executors that loaded its url, in order
    gpc,           \* gpc[c]: where the goroutine of lines 245-250 is
    clientURL,     \* the page of the browser of Manager.client
    \* ---- a call of FillForm
    fpc,           \* "idle", "blocked" (chromedp.Run waits) or "done"
    fcall,         \* its backend and arguments, and whether the manager
                   \* was open when it was made
    fres,          \* its FillFormResult
    typed,         \* the selectors typed into, in order
    clicked,       \* the selectors clicked, in order
    \* ---- a call of RestoreSession
    rpc,           \* "idle" or "done"
    rcall,         \* its backend and SessionData
    rres,          \* its result map
    \* ---- GetSessionData
    sessionData,   \* sessionData[b]: the SessionData that the sessionData
                   \* field of manager b points to
    handed,        \* the records GetSessionData has returned: the manager
                   \* whose object each is, and its content at the return
    now,           \* time.Now()
    cap,           \* the browser as the last GetSessionData found it
    \* ---- a call of wait_for_element or wait_advanced
    wpc,           \* "idle", "waiting" or "done"
    wcall,         \* its tool, selector, timeout argument and time.Duration
    elapsed,       \* the time since WaitForElement was entered
    wres,          \* its tool result
    \* ---- a call of Navigate of the rich backend, or of Click or
    \* ---- ExtractText of either
    ppc,           \* "idle", "running" (chromedp.Run waits) or "done"
    pcall,         \* its method, backend and arguments
    pret,          \* its result
    \* ---- storage.Manager and a call of session_save or session_load
    store,         \* the tables sessions and request_logs and their
                   \* AUTOINCREMENT counters
    saved,         \* history: saved[n] holds the data of the last successful
                   \* SaveSession(n, d) unless a DeleteSession(n) succeeded
                   \* after it
    logged,        \* history: the number of LogRequest calls that succeeded,
                   \* less the rows CleanupOldData deleted
    tpc,           \* the number of calls made
    tcall,         \* the tool and name of the last one, and whether the
                   \* database failed in it
    tret,          \* its tool result
    \* ---- the tool table of the MCP server
    tools,         \* the AddTool calls made, in order: name and handler
    req,           \* the last tool request a handler served: its arguments,
                   \* the methods the handler called and its tool result
    \* ---- the document of the page
    dom,           \* its elements in document order: kind and textContent
    \* ---- the probe of a debug endpoint
    probe          \* the last isDebugPortAvailable call: the port, what the
                   \* endpoint did and what the call returned

envVars == << live, verif, ctxInherits >>

mgrVars ==
    << mpc, portIdx, mctx, attachVia, minitErr, closeCalled, probed, opened >>

richVars == << richOK, spawned >>

srvVars == << spc, startErr, richInits, legacyInits, lastCall >>

tabVars == << pageURL, pageReady, present, jar, rejects >>

navVars == << cpc, carg, cres, loads, gpc, clientURL >>

formVars == << fpc, fcall, fres, typed, clicked >>

sessVars == << rpc, rcall, rres >>

capVars == << sessionData, handed, now, cap >>

\* The state of the operations of the sections further down.
waitVars == << wpc, wcall, elapsed, wres >>

primVars == << ppc, pcall, pret >>

storVars == << store, saved, logged, tpc, tcall, tret >>

regVars == << tools, req >>

domVars == << dom >>

probeVars == << probe >>

opVars ==
    << capVars, waitVars, primVars, storVars, regVars, domVars, probeVars >>

\* What the actions of one of these sections leave alone in the others.
capOthers ==
    << waitVars, primVars, storVars, regVars, domVars, probeVars >>

waitOthers ==
    << capVars, primVars, storVars, regVars, domVars, probeVars >>

primOthers ==
    << capVars, waitVars, storVars, regVars, domVars, probeVars >>

storOthers ==
    << waitVars, primVars, regVars, domVars, probeVars >>

vars == << envVars, mgrVars, richVars, srvVars, tabVars, navVars, formVars,
           sessVars, opVars >>

NoCall == [tool |-> "none", executor |-> "none", isError |-> FALSE,
           success |-> FALSE, msg |-> << >>]

(***************************************************************************)
(* browser.Manager: Init and the attach.                                   *)
(***************************************************************************)

\* isDebugPortAvailable: the GET of debugURL + "/json" answered with 200.
isDebugPortAvailable(p) == live[p]

\* A verification that every candidate passes.
candidateVerifiesAlways(p) == TRUE

\* chromedp.Run(testCtx, Evaluate(`window.location.href`, nil)) == nil on a
\* fresh context of the allocator of port p.
candidateVerifies(p) == verif[p]

\* The context a cancelled allocator leaves behind: allocCancel() (line 138)
\* and cancel() (line 87) run before the context is used again.
ctxAfterAllocCancel(p) == [port |-> p, cancelled |-> ctxInherits]

\* The ports with a live context once the allocator of port p is
\* cancelled and its context kept (lines 138, 87).
afterAllocCancel(open, p) == IF ctxInherits THEN open \ {p} ELSE open

\* A failed attempt that cancels nothing.
attemptLeftOpen(open, p) == open

\* The ports with a live context once cancel() and allocCancel() of the
\* attempt at port p have run (lines 143-144).
afterFailedAttempt(open, p) == open \ {p}

\* One iteration of the for loop of connectToExistingChrome.
connectIterate ==
    /\ mpc = "connect"
    /\ portIdx <= Len(ports)
    /\ LET p == ports[portIdx] IN
       /\ probed' = probed \cup {p}
       /\ IF isDebugPortAvailable(p) /\ candidateVerifies(p)
          THEN /\ mctx' = ctxAfterAllocCancel(p)
               /\ opened' = afterAllocCancel(opened \cup {p}, p)
               /\ attachVia' = "probe"
               /\ mpc' = "test"
               /\ UNCHANGED portIdx
          ELSE /\ portIdx' = portIdx + 1
               /\ opened' = IF isDebugPortAvailable(p)
                            THEN afterFailedAttempt(opened \cup {p}, p)
                            ELSE opened
               /\ UNCHANGED << mctx, attachVia, mpc >>
    /\ UNCHANGED << closeCalled, minitErr, opVars, envVars, richVars, srvVars,
                    tabVars, navVars, formVars, sessVars >>

\* The loop ran out: connectToExistingChrome returns nil, nil and Init takes
\* the else branch (lines 79-88).
connectFallback ==
    /\ mpc = "connect"
    /\ portIdx > Len(ports)
    /\ mctx' = ctxAfterAllocCancel(DefaultPort)
    /\ opened' = afterAllocCancel(opened \cup {DefaultPort}, DefaultPort)
    /\ attachVia' = "fallback"
    /\ mpc' = "test"
    /\ UNCHANGED << probed, closeCalled, portIdx, minitErr, opVars, envVars,
                    richVars, srvVars, tabVars, navVars, formVars, sessVars >>

\* testConnection: Evaluate under a 5 s timeout derived from m.ctx.
testConnection == (~mctx.cancelled) /\ verif[mctx.port]

\* The cause chromedp reports to testConnection.
testConnectionCause == IF mctx.cancelled THEN "context canceled"
                       ELSE "could not dial"

\* An error of Init that names the cause only.
connectErrorBare(cause) == << "failed to connect to Chrome: ", cause >>

\* The error of Init when testConnection fails (line 92).
connectError(cause) ==
    << "failed to connect to Chrome: ", cause,
       "Make sure Chrome is running with debugging enabled:", RemediationCmd >>

\* The error of Init when os.MkdirAll fails (line 103).
mkdirError == << "failed to create screenshots directory: ", "mkdir" >>

\* Manager.Init from the test of the connection (line 91) on a failure.
initTestConnection ==
    /\ mpc = "test"
    /\ IF testConnection
       THEN /\ mpc' = "setup"
            /\ UNCHANGED minitErr
       ELSE /\ mpc' = "failed"
            /\ minitErr' = connectError(testConnectionCause)
    /\ UNCHANGED << probed, opened, closeCalled, portIdx, mctx, attachVia,
                    opVars, envVars, richVars, srvVars, tabVars, navVars,
                    formVars, sessVars >>

\* Manager.Init, lines 95-112: the browserhttp client, the screenshots
\* directory, and initBrowserHTTPWithExistingChrome, whose error is logged
\* and dropped.
initSetup ==
    /\ mpc = "setup"
    /\ \E mkdirOK \in BOOLEAN, clientInitOK \in BOOLEAN :
         IF ~mkdirOK
         THEN /\ mpc' = "failed"
              /\ minitErr' = mkdirError
              /\ UNCHANGED spawned
         ELSE /\ mpc' = "ready"
              /\ minitErr' = NoErr
              /\ spawned' = IF clientInitOK THEN spawned \cup {"legacy"}
                                            ELSE spawned
    /\ UNCHANGED << probed, opened, closeCalled, portIdx, mctx, attachVia,
                    richOK, opVars, envVars, srvVars, tabVars, navVars,
                    formVars, sessVars >>

(***************************************************************************)
(* server.EnhancedMCPChromeServer: Start.                                  *)
(***************************************************************************)

\* Start, lines 58-60: s.storage.Init().
startStorage ==
    /\ spc = "new"
    /\ \E ok \in BOOLEAN :
         IF ok
         THEN /\ spc' = "richInit"
              /\ UNCHANGED startErr
         ELSE /\ spc' = "returned"
              /\ startErr' = << "failed to initialize storage: ", "sqlite" >>
    /\ UNCHANGED << richInits, legacyInits, lastCall, opVars, envVars,
                    mgrVars, richVars, tabVars, navVars, formVars, sessVars >>

\* Start, lines 62-64, with EnhancedManager.Init (lines 471-491): on its
\* error Start logs and calls s.legacyBrowser.Init().
startRichInit ==
    /\ spc = "richInit"
    /\ richInits' = richInits + 1
    /\ \E mkdirOK \in BOOLEAN, clientInitOK \in BOOLEAN :
         IF mkdirOK /\ clientInitOK
         THEN /\ richOK' = "ok"
              /\ spawned' = spawned \cup {"rich"}
              /\ spc' = "serving"
              /\ UNCHANGED << mpc, portIdx, legacyInits >>
         ELSE /\ richOK' = "err"
              /\ UNCHANGED spawned
              /\ spc' = "legacyInit"
              /\ legacyInits' = legacyInits + 1
              /\ mpc' = "connect"
              /\ portIdx' = 1
    /\ UNCHANGED << probed, opened, closeCalled, mctx, attachVia, minitErr,
                    startErr, lastCall, opVars, envVars, tabVars, navVars,
                    formVars, sessVars >>

\* A Start that logs the error of s.legacyBrowser.Init() and serves.
afterLegacyInitErrorServes == "serving"

\* What Start does when s.legacyBrowser.Init() returned an error (line 65).
afterLegacyInitError == "returned"

\* Start, lines 64-67, once s.legacyBrowser.Init() has returned.
startAfterLegacyInit ==
    /\ spc = "legacyInit"
    /\ mpc \in {"failed", "ready"}
    /\ IF mpc = "failed"
       THEN /\ spc' = afterLegacyInitError
            /\ startErr' =
                 << "failed to initialize browser (both enhanced and legacy): " >>
                 \o minitErr
       ELSE /\ spc' = "serving"
            /\ UNCHANGED startErr
    /\ UNCHANGED << richInits, legacyInits, lastCall, opVars, envVars,
                    mgrVars, richVars, tabVars, navVars, formVars, sessVars >>

\* Start, lines 69-80: server.ServeStdio returns and the deferred function
\* closes both managers; Manager.Close calls m.cancel when it is set.
startServeReturns ==
    /\ spc = "serving"
    /\ spc' = "returned"
    /\ \E ok \in BOOLEAN :
         startErr' = IF ok THEN NoErr
                     ELSE << "failed to serve enhanced MCP server: ", "stdio" >>
    /\ mctx' = IF mctx.port # 0 THEN [mctx EXCEPT !.cancelled = TRUE] ELSE mctx
    /\ closeCalled' = TRUE
    /\ opened' = {}
    /\ UNCHANGED << probed, mpc, portIdx, attachVia, minitErr, richInits,
                    legacyInits, lastCall, opVars, envVars, richVars, tabVars,
                    navVars, formVars, sessVars >>

\* The backend-selection state of the facade (spec section 4.5), read off
\* the results of the two Init calls.
FacadeState ==
    IF richOK = "ok" THEN "Rich"
    ELSE IF richOK = "err" /\ mpc = "ready" THEN "Legacy"
    ELSE IF richOK = "err" /\ mpc = "failed" THEN "Unavailable"
    ELSE "Uninitialized"

(***************************************************************************)
(* browser.EnhancedManager: the capability methods.  A browserhttp call    *)
(* on the page succeeds when the client answers (up) and, for a call on a  *)
(* selector, when the selector matches an element of the page.             *)
(***************************************************************************)

\* The text of an error of the browserhttp client.
LibErr == "browserhttp error"

\* m.client.Type(sel, v) == nil, m.client.Click(sel) == nil.
clientActs(sel, pres, up) == up /\ sel \in pres

\* submitSelectors of EnhancedManager.FillForm (lines 606-611).
submitSelectorsEnhanced ==
    << "input[type='submit']", "button[type='submit']", "form button",
       ".submit-button" >>

\* The least index of seq whose selector the client cannot act on, 0 if none.
firstFailing(seq, pres, up) ==
    LET bad == { i \in DOMAIN seq : ~clientActs(seq[i], pres, up) }
    IN  IF bad = {} THEN 0 ELSE CHOOSE i \in bad : \A j \in bad : i <= j

\* The least index of seq whose selector the client can click, 0 if none.
firstClickable(seq, pres, up) ==
    LET good == { i \in DOMAIN seq : clientActs(seq[i], pres, up) }
    IN  IF good = {} THEN 0 ELSE CHOOSE i \in good : \A j \in good : i <= j

\* The message EnhancedManager.FillForm appends when no click succeeded
\* (line 623).
notSubmittedNote == " (submit button not found)"

\* EnhancedManager.FillForm(fields, submit) with the fields ranged over in
\* the order `order`: the result, and the selectors typed into and clicked.
EnhancedFillForm(order, submit, pres, up) ==
    LET f == firstFailing(order, pres, up)
        c == firstClickable(submitSelectorsEnhanced, pres, up)
    IN  IF f # 0
        THEN [success |-> FALSE,
              msg |-> << "Enhanced form filling failed at ", order[f], LibErr >>,
              typed |-> SubSeq(order, 1, f - 1),
              clicked |-> << >>]
        ELSE IF ~submit
        THEN [success |-> TRUE,
              msg |-> << "Enhanced form filled successfully" >>,
              typed |-> order,
              clicked |-> << >>]
        ELSE IF c # 0
        THEN [success |-> TRUE,
              msg |-> << "Enhanced form filled successfully", " and submitted" >>,
              typed |-> order,
              clicked |-> << submitSelectorsEnhanced[c] >>]
        ELSE [success |-> TRUE,
              msg |-> << "Enhanced form filled successfully", notSubmittedNote >>,
              typed |-> order,
              clicked |-> << >>]

\* The title of the document at url.
TitleOf(url) ==
    CASE url = "https://a.example" -> "Page A"
      [] url = "https://b.example" -> "Page B"
      [] OTHER -> ""

\* EnhancedManager.Navigate(url, waitFor, screenshot) (lines 504-542):
\* getOK is the result of m.client.Get, waitOK that of
\* m.client.WaitForElement.
EnhancedNavigate(url, waitFor, screenshot, getOK, waitOK) ==
    IF ~getOK
    THEN [success |-> FALSE,
          msg |-> << "Enhanced navigation failed: ", LibErr >>,
          title |-> "", screenshot |-> ""]
    ELSE [success |-> TRUE,
          msg |-> << "Enhanced navigation successful" >> \o
                  (IF waitFor = "" THEN << >>
                   ELSE IF waitOK THEN << " (element found)" >>
                   ELSE << " (wait failed: ", LibErr, ")" >>),
          title |-> TitleOf(url),
          screenshot |-> IF screenshot
                         THEN "screenshot_captured_by_browserhttp" ELSE ""]

(***************************************************************************)
(* server.EnhancedMCPChromeServer: the tool handlers.  Each runs while     *)
(* ServeStdio serves; server.WithRecovery turns a panic of a handler into  *)
(* an error result.                                                        *)
(***************************************************************************)

\* The greatest number of entries of a fields map.
MaxFields == 2

FieldSels == { "#user", "#pass", "#email" }

\* The orders in which a range over a fields map of at most MaxFields
\* entries can visit its keys.
FieldOrders ==
    UNION { { o \in [1..n -> FieldSels] :
                \A i, j \in 1..n : i # j => o[i] # o[j] } : n \in 0..MaxFields }

\* The manager every handler of the enhanced server calls: s.browser.
handlerBackend == "rich"

\* What a call of the client of s.browser can do: answer, return an error,
\* or, when EnhancedManager.Init did not complete, panic.
richAnswers == IF richOK = "ok" THEN {"ok", "err"} ELSE {"ok", "err", "panic"}

Recovered(tool) ==
    [tool |-> tool, executor |-> handlerBackend, isError |-> TRUE,
     success |-> FALSE, msg |-> << "panic recovered in tool handler" >>]

Rejected(tool, why) ==
    [tool |-> tool, executor |-> "none", isError |-> TRUE, success |-> FALSE,
     msg |-> << why >>]

\* handleEnhancedNavigate (lines 218-243).
handleEnhancedNavigate ==
    /\ spc = "serving"
    /\ \E url \in {"", "https://a.example"}, waitFor \in {"", "#main"},
          screenshot \in BOOLEAN, track \in BOOLEAN, a \in richAnswers,
          waitOK \in BOOLEAN, perfOK \in BOOLEAN :
         lastCall' =
           IF url = "" THEN Rejected("chrome_navigate", "URL parameter is required")
           ELSE IF a = "panic" THEN Recovered("chrome_navigate")
           ELSE LET r == EnhancedNavigate(url, waitFor, screenshot, a = "ok",
                                         waitOK)
                IN  [tool |-> "chrome_navigate", executor |-> handlerBackend,
                     isError |-> FALSE, success |-> r.success,
                     msg |-> r.msg \o (IF track /\ perfOK
                                       THEN << " (Load time: ", "ms", ")" >>
                                       ELSE << >>)]
    /\ UNCHANGED << spc, startErr, richInits, legacyInits, opVars, envVars,
                    mgrVars, richVars, tabVars, navVars, formVars, sessVars >>

\* handleEnhancedFillForm (lines 245-273).
handleEnhancedFillForm ==
    /\ spc = "serving"
    /\ \E order \in FieldOrders, submit \in BOOLEAN, validate \in BOOLEAN,
          a \in richAnswers :
         lastCall' =
           IF order = << >>
           THEN Rejected("chrome_fill_form", "Fields parameter is required")
           ELSE IF a = "panic" THEN Recovered("chrome_fill_form")
           ELSE LET r == EnhancedFillForm(order, submit, present, a = "ok")
                IN  [tool |-> "chrome_fill_form", executor |-> handlerBackend,
                     isError |-> FALSE, success |-> r.success,
                     msg |-> r.msg \o (IF validate /\ submit
                                       THEN << " (validated before submission)" >>
                                       ELSE << >>)]
    /\ UNCHANGED << spc, startErr, richInits, legacyInits, opVars, envVars,
                    mgrVars, richVars, tabVars, navVars, formVars, sessVars >>

\* The tools of handleAnalyzeSEO, handleGetPerformance, handleCheckSecurity.
AnalysisTools ==
    { "chrome_analyze_seo", "chrome_get_performance", "chrome_check_security" }

\* The tools of handleGetLocalStorage, handleSetLocalStorage.
StorageTools == { "chrome_get_local_storage", "chrome_set_local_storage" }

\* The prefix NewToolResultErrorFromErr is given by each handler.
failText(tool) ==
    CASE tool = "chrome_analyze_seo" -> "SEO analysis failed"
      [] tool = "chrome_get_performance" -> "Performance analysis failed"
      [] tool = "chrome_check_security" -> "Security analysis failed"
      [] tool = "chrome_get_local_storage" -> "Failed to get localStorage"
      [] tool = "chrome_set_local_storage" -> "Failed to set localStorage"
      [] tool = "chrome_wait_advanced" -> "Wait failed"

\* The result of a handler that calls one method of s.browser and wraps its
\* error (lines 324-335, 339-350, 354-365, 422-434, 445-458, 399-413).
wrapResult(tool, a) ==
    IF a = "panic" THEN Recovered(tool)
    ELSE IF a = "err"
    THEN [tool |-> tool, executor |-> handlerBackend, isError |-> TRUE,
          success |-> FALSE, msg |-> << failText(tool), LibErr >>]
    ELSE [tool |-> tool, executor |-> handlerBackend, isError |-> FALSE,
          success |-> TRUE, msg |-> << >>]

\* handleAnalyzeSEO, handleGetPerformance, handleCheckSecurity
\* (lines 323-366).
handleAnalysis ==
    /\ spc = "serving"
    /\ \E tool \in AnalysisTools, a \in richAnswers :
         lastCall' = wrapResult(tool, a)
    /\ UNCHANGED << spc, startErr, richInits, legacyInits, opVars, envVars,
                    mgrVars, richVars, tabVars, navVars, formVars, sessVars >>

\* handleGetLocalStorage, handleSetLocalStorage (lines 416-459).
handleLocalStorage ==
    /\ spc = "serving"
    /\ \E tool \in StorageTools, key \in {"", "k"}, a \in richAnswers :
         lastCall' = IF key = "" THEN Rejected(tool, "Key parameter is required")
                     ELSE wrapResult(tool, a)
    /\ UNCHANGED << spc, startErr, richInits, legacyInits, opVars, envVars,
                    mgrVars, richVars, tabVars, navVars, formVars, sessVars >>

\* handleWaitAdvanced (lines 388-414): only the selector is waited for.
handleWaitAdvanced ==
    /\ spc = "serving"
    /\ \E selector \in {"", "#main"}, text \in {"", "hello"}, a \in richAnswers :
         lastCall' =
           IF selector = "" /\ text = ""
           THEN Rejected("chrome_wait_advanced",
                         "Either selector or text parameter is required")
           ELSE IF selector = ""
           THEN [tool |-> "chrome_wait_advanced", executor |-> "none",
                 isError |-> FALSE, success |-> TRUE, msg |-> << >>]
           ELSE wrapResult("chrome_wait_advanced", a)
    /\ UNCHANGED << spc, startErr, richInits, legacyInits, opVars, envVars,
                    mgrVars, richVars, tabVars, navVars, formVars, sessVars >>

(***************************************************************************)
(* The server from its construction on.                                    *)
(***************************************************************************)
mgrIdle ==
    /\ mpc = "idle"
    /\ portIdx = 1
    /\ mctx = NilCtx
    /\ attachVia = "none"
    /\ minitErr = NoErr
    /\ closeCalled = FALSE
    /\ probed = {}
    /\ opened = {}

tabIdle ==
    /\ pageURL = "about:blank"
    /\ pageReady = TRUE
    /\ jar = {}
    /\ rejects = {}

navIdle ==
    /\ cpc = << >>
    /\ carg = << >>
    /\ cres = << >>
    /\ loads = << >>
    /\ gpc = << >>
    /\ clientURL = "about:blank"

formIdle ==
    /\ fpc = "idle"
    /\ fcall = << >>
    /\ fres = << >>
    /\ typed = << >>
    /\ clicked = << >>

sessIdle ==
    /\ rpc = "idle"
    /\ rcall = << >>
    /\ rres = << >>

\* The SessionData of New and NewEnhanced: &SessionData{}.
EmptySessionData ==
    [cookies |-> << >>, url |-> "", userAgent |-> "", timestamp |-> 0]

NoCapture == [backend |-> "none", url |-> "", jar |-> {}, complete |-> FALSE,
              fresh |-> FALSE]

capIdle ==
    /\ sessionData = [b \in {"legacy", "rich"} |-> EmptySessionData]
    /\ handed = << >>
    /\ now = 0
    /\ cap = NoCapture

waitIdle ==
    /\ wpc = "idle"
    /\ wcall = << >>
    /\ elapsed = 0
    /\ wres = << >>

primIdle ==
    /\ ppc = "idle"
    /\ pcall = << >>
    /\ pret = << >>

SessionNames == { "s1", "s2" }

\* The tables createTables (lines 963-990) makes in a new database.
EmptyStore ==
    [sessions |-> {}, seq |-> 0, request_logs |-> {}, logSeq |-> 0,
     screenshots |-> {}, shotSeq |-> 0]

storIdle ==
    /\ store = EmptyStore
    /\ saved = [n \in SessionNames |-> {}]
    /\ logged = 0
    /\ tpc = 0
    /\ tcall = << >>
    /\ tret = << >>

opsIdle ==
    capIdle /\ waitIdle /\ primIdle /\ storIdle /\ dom = << >> /\ probe = << >>

\* One AddTool call.
AddTool(name, handler) == [name |-> name, handler |-> handler]

\* registerCoreTools (lines 105-124).
registerCoreTools ==
    << AddTool("chrome_navigate", "handleEnhancedNavigate"),
       AddTool("chrome_fill_form", "handleEnhancedFillForm") >>

\* registerContentAnalysisTools (lines 127-153).
registerContentAnalysisTools ==
    << AddTool("chrome_extract_links", "handleExtractLinks"),
       AddTool("chrome_extract_images", "handleExtractImages"),
       AddTool("chrome_extract_forms", "handleExtractForms"),
       AddTool("chrome_analyze_seo", "handleAnalyzeSEO") >>

\* registerPerformanceTools (lines 156-162).
registerPerformanceTools ==
    << AddTool("chrome_get_performance", "handleGetPerformance") >>

\* registerSecurityTools (lines 165-171).
registerSecurityTools ==
    << AddTool("chrome_check_security", "handleCheckSecurity") >>

\* registerAdvancedInteractionTools (lines 174-191).
registerAdvancedInteractionTools ==
    << AddTool("chrome_post_json", "handlePostJSON"),
       AddTool("chrome_wait_advanced", "handleWaitAdvanced") >>

\* registerDataManagementTools (lines 194-215).
registerDataManagementTools ==
    << AddTool("chrome_get_local_storage", "handleGetLocalStorage"),
       AddTool("chrome_set_local_storage", "handleSetLocalStorage"),
       AddTool("chrome_clear_session", "handleClearSession") >>

\* registerEnhancedTools (lines 84-102), called by NewEnhanced (line 48).
registerEnhancedTools ==
    registerCoreTools \o registerContentAnalysisTools
        \o registerPerformanceTools \o registerSecurityTools
        \o registerAdvancedInteractionTools \o registerDataManagementTools

\* NewEnhanced (lines 25-51) on a host whose browsers are as live and verif
\* say.
Init ==
    /\ live \in [PortSet -> BOOLEAN]
    /\ verif \in [PortSet -> BOOLEAN]
    /\ ctxInherits \in BOOLEAN
    /\ mgrIdle
    /\ richOK = "none"
    /\ spawned = {}
    /\ spc = "new"
    /\ startErr = NoErr
    /\ richInits = 0
    /\ legacyInits = 0
    /\ lastCall = NoCall
    /\ tools = registerEnhancedTools
    /\ req = << >>
    /\ tabIdle
    /\ present = { "#user", "#pass" }
    /\ navIdle
    /\ formIdle
    /\ sessIdle
    /\ opsIdle

Next ==
    \/ startStorage
    \/ startRichInit
    \/ connectIterate
    \/ connectFallback
    \/ initTestConnection
    \/ initSetup
    \/ startAfterLegacyInit
    \/ handleEnhancedNavigate
    \/ handleEnhancedFillForm
    \/ handleAnalysis
    \/ handleLocalStorage
    \/ handleWaitAdvanced
    \/ startServeReturns

Spec == Init /\ [][Next]_vars

(***************************************************************************)
(* Properties of the attach and of the backend selection.                  *)
(***************************************************************************)

\* The backend the facade has selected.
ActiveBackend == IF FacadeState = "Rich" THEN "rich" ELSE "legacy"

\* EnhancedManager.ctx is never assigned: the rich backend holds no context
\* of a probed endpoint.
enhancedCtx == NilCtx

backendCtx(b) == IF b = "legacy" THEN mctx ELSE enhancedCtx

Viable(p) == live[p] /\ verif[p]

\* C3: no initialisation path launches a browser: while the server serves,
\* the selected backend is attached to a browser found on a debug endpoint
\* and no backend has launched a browser of its own.
C3_ServingBackendAttachedNoSpawn ==
    spc = "serving" =>
        /\ backendCtx(ActiveBackend).port \in PortSet
        /\ spawned = {}

\* C4: the attach returns the first port, in the order 9222, 9223, 9224,
\* that is live and verifies, and none when no port is; the port is so a
\* function of the liveness configuration.
C4_FirstViablePortChosen ==
    /\ attachVia = "probe" =>
          /\ Viable(mctx.port)
          /\ \A q \in PortSet : q < mctx.port => ~Viable(q)
    /\ attachVia = "fallback" => \A q \in PortSet : ~Viable(q)

\* Two ports are live and verify, 9222 is live and does not verify, and
\* the earlier of the two was chosen.
C4_Witness ==
    /\ attachVia = "probe"
    /\ mctx.port = 9223
    /\ Viable(9224)
    /\ live[9222]

\* C5: when no candidate was viable and the test of the fallback
\* connection fails, the error of Manager.Init contains the remediation
\* command.
C5_RemediationInInitError ==
    (attachVia = "fallback" /\ mpc = "failed" /\ ~testConnection)
        => Contains(minitErr, RemediationCmd)

\* No port answers the probe and Init has failed on the fallback.
C5_Witness ==
    /\ attachVia = "fallback"
    /\ mpc = "failed"
    /\ ~testConnection
    /\ \A p \in PortSet : ~live[p]
    /\ minitErr # NoErr

\* The primitives both backends provide.
SharedTools == { "chrome_navigate", "chrome_fill_form", "chrome_wait_advanced" }

\* C6: in the Legacy state a call of a primitive both backends support is
\* executed by the legacy backend.
C6_LegacyExecutesSharedPrimitives ==
    (FacadeState = "Legacy" /\ lastCall.tool \in SharedTools
        /\ lastCall.executor # "none")
        => lastCall.executor = "legacy"

\* C7: in the Legacy state a call of a capability the legacy backend lacks
\* returns a failure that reports the capability as not supported.
C7_UnsupportedReportedAsSuch ==
    (FacadeState = "Legacy" /\ lastCall.tool \in AnalysisTools \cup StorageTools
        /\ lastCall.executor # "none")
        => /\ lastCall.isError
           /\ Contains(lastCall.msg, "not supported on this backend")

\* C8: when both Init calls failed, Start returns an error, neither Init is
\* called again, no tool call succeeds, and the facade stays Unavailable.
C8_UnavailableIsTerminal ==
    /\ [](FacadeState = "Unavailable" =>
            /\ spc \in {"legacyInit", "returned"}
            /\ spc = "returned" => startErr # NoErr
            /\ richInits = 1 /\ legacyInits = 1
            /\ ~lastCall.success)
    /\ [][FacadeState = "Unavailable" =>
            /\ FacadeState' = "Unavailable"
            /\ lastCall' = lastCall
            /\ richInits' = richInits /\ legacyInits' = legacyInits]_vars

\* Both Init calls failed and Start has returned its error.
C8_Witness ==
    /\ FacadeState = "Unavailable"
    /\ spc = "returned"
    /\ Contains(startErr,
                "failed to initialize browser (both enhanced and legacy): ")

(***************************************************************************)
(* browser.Manager.Navigate under concurrent dispatch.  The dispatch layer *)
(* runs each tool call on a task of its own (spec section 5); the handler  *)
(* of the legacy server, handleChromeNavigate, calls Manager.Navigate,     *)
(* which holds no lock: the actions of its chromedp.Run are steps that     *)
(* other calls can run between.                                            *)
(***************************************************************************)

\* The number of tool calls dispatched.
NumCalls == 2

Callers == 1..NumCalls

NavUrls == { "https://a.example", "https://b.example" }

NoNavResult == [success |-> FALSE, title |-> "", msg |-> << >>]

Running == { "navigate", "waitReady", "title", "waitVisible" }

\* The calls whose chromedp.Run is under way.
InFlight == { c \in Callers : cpc[c] \in Running }

\* handleChromeNavigate (part_001 lines 173-192) up to the start of
\* chromedp.Run in Manager.Navigate (line 229).
handleChromeNavigate(c) ==
    /\ cpc[c] = "idle"
    /\ ~mctx.cancelled
    /\ \E url \in NavUrls \cup {""}, waitFor \in {"", "#main"} :
         IF url = ""
         THEN /\ cpc' = [cpc EXCEPT ![c] = "done"]
              /\ cres' = [cres EXCEPT ![c] =
                            [NoNavResult EXCEPT
                               !.msg = << "URL parameter is required" >>]]
              /\ UNCHANGED carg
         ELSE /\ cpc' = [cpc EXCEPT ![c] = "navigate"]
              /\ carg' = [carg EXCEPT ![c] = [url |-> url, waitFor |-> waitFor]]
              /\ UNCHANGED cres
    /\ UNCHANGED << loads, gpc, clientURL, opVars, envVars, mgrVars, richVars,
                    srvVars, tabVars, formVars, sessVars >>

navFailed(c, cause) ==
    /\ cpc' = [cpc EXCEPT ![c] = "done"]
    /\ cres' = [cres EXCEPT ![c] =
                  [NoNavResult EXCEPT !.msg = << "Navigation failed: ", cause >>]]

\* chromedp.Navigate(url) (line 210).
navigateAction(c) ==
    /\ cpc[c] = "navigate"
    /\ \E ok \in BOOLEAN :
         IF ok
         THEN /\ pageURL' = carg[c].url
              /\ pageReady' = FALSE
              /\ loads' = [loads EXCEPT ![c] = Append(@, "chromedp")]
              /\ cpc' = [cpc EXCEPT ![c] = "waitReady"]
              /\ UNCHANGED cres
         ELSE /\ navFailed(c, "net error")
              /\ UNCHANGED << pageURL, pageReady, loads >>
    /\ UNCHANGED << carg, gpc, clientURL, present, jar, rejects, opVars,
                    envVars, mgrVars, richVars, srvVars, formVars, sessVars >>

\* The browser finishes loading the document.
pageLoads ==
    /\ ~pageReady
    /\ pageReady' = TRUE
    /\ UNCHANGED << pageURL, present, jar, rejects, opVars, envVars, mgrVars,
                    richVars, srvVars, navVars, formVars, sessVars >>

\* chromedp.WaitReady("body") (line 211).
waitReadyAction(c) ==
    /\ cpc[c] = "waitReady"
    /\ pageReady
    /\ cpc' = [cpc EXCEPT ![c] = "title"]
    /\ UNCHANGED << carg, cres, loads, gpc, clientURL, opVars, envVars,
                    mgrVars, richVars, srvVars, tabVars, formVars, sessVars >>

\* Lines 235-252: the result, and the goroutine that calls m.client.Get.
navSucceeded(c, t) ==
    /\ cpc' = [cpc EXCEPT ![c] = "done"]
    /\ cres' = [cres EXCEPT ![c] =
                  [success |-> TRUE, title |-> t,
                   msg |-> << "Navigation successful using existing Chrome session" >>]]
    /\ gpc' = [gpc EXCEPT ![c] = "started"]

\* chromedp.Title(&title) (line 212), and lines 235-252 when it was the
\* last action: the title of the document the tab holds now, empty while
\* that document is still loading.
titleAction(c) ==
    /\ cpc[c] = "title"
    /\ \E t \in (IF pageReady THEN {TitleOf(pageURL)} ELSE {"", TitleOf(pageURL)}) :
         IF carg[c].waitFor = ""
         THEN navSucceeded(c, t)
         ELSE /\ cpc' = [cpc EXCEPT ![c] = "waitVisible"]
              /\ cres' = [cres EXCEPT ![c] = [NoNavResult EXCEPT !.title = t]]
              /\ UNCHANGED gpc
    /\ UNCHANGED << carg, loads, clientURL, opVars, envVars, mgrVars, richVars,
                    srvVars, tabVars, formVars, sessVars >>

\* chromedp.WaitVisible(waitFor) (line 217), and lines 235-252.
waitVisibleAction(c) ==
    /\ cpc[c] = "waitVisible"
    /\ carg[c].waitFor \in present
    /\ navSucceeded(c, cres[c].title)
    /\ UNCHANGED << carg, loads, clientURL, opVars, envVars, mgrVars, richVars,
                    srvVars, tabVars, formVars, sessVars >>

\* The 30 s of navCtx (line 226) run out while Run is under way.
navTimeout(c) ==
    /\ cpc[c] \in Running
    /\ navFailed(c, "context deadline exceeded")
    /\ UNCHANGED << carg, loads, gpc, clientURL, opVars, envVars, mgrVars,
                    richVars, srvVars, tabVars, formVars, sessVars >>

\* A Get that loads the url in the tab of the attached browser.
clientGetAttached(url) == [page |-> url, client |-> clientURL]

\* m.client.Get(url) that succeeds: the browser of the client, which
\* client.Init launches (lines 177-180), loads the url.
clientGet(url) == [page |-> pageURL, client |-> url]

\* The goroutine of Manager.Navigate (lines 245-250): m.client.Get(url)
\* after the call has returned.  An error of Get is dropped (line 246).
confirmGet(c) ==
    /\ gpc[c] = "started"
    /\ gpc' = [gpc EXCEPT ![c] = "done"]
    /\ \E getOK \in BOOLEAN :
         IF getOK
         THEN LET r == clientGet(carg[c].url)
              IN  /\ loads' = [loads EXCEPT ![c] = Append(@, "browserhttp")]
                  /\ pageURL' = r.page
                  /\ clientURL' = r.client
         ELSE UNCHANGED << loads, pageURL, clientURL >>
    /\ UNCHANGED << cpc, carg, cres, pageReady, present, jar, rejects, opVars,
                    envVars, mgrVars, richVars, srvVars, formVars, sessVars >>

\* A Manager that Init has attached to the browser of port 9222.
mgrAttached ==
    /\ live = [p \in PortSet |-> p = DefaultPort]
    /\ verif = [p \in PortSet |-> p = DefaultPort]
    /\ ctxInherits = FALSE
    /\ mpc = "ready"
    /\ portIdx = 1
    /\ mctx = [port |-> DefaultPort, cancelled |-> FALSE]
    /\ attachVia = "probe"
    /\ minitErr = NoErr
    /\ closeCalled = FALSE
    /\ probed = {DefaultPort}
    /\ opened = {DefaultPort}

\* The enhanced server is not in use.
srvUnused ==
    /\ richOK = "none"
    /\ spawned = {}
    /\ spc = "new"
    /\ startErr = NoErr
    /\ richInits = 0
    /\ legacyInits = 0
    /\ lastCall = NoCall
    /\ tools = registerEnhancedTools
    /\ req = << >>

InitNav ==
    /\ mgrAttached
    /\ srvUnused
    /\ tabIdle
    /\ present \in { {}, {"#main"} }
    /\ cpc = [c \in Callers |-> "idle"]
    /\ carg = [c \in Callers |-> [url |-> "", waitFor |-> ""]]
    /\ cres = [c \in Callers |-> NoNavResult]
    /\ loads = [c \in Callers |-> << >>]
    /\ gpc = [c \in Callers |-> "none"]
    /\ clientURL = "about:blank"
    /\ formIdle
    /\ sessIdle
    /\ opsIdle

\* The steps of the calls of Manager.Navigate, up to their return.
navCalls ==
    \/ \E c \in Callers : handleChromeNavigate(c)
    \/ \E c \in Callers : navigateAction(c)
    \/ pageLoads
    \/ \E c \in Callers : waitReadyAction(c)
    \/ \E c \in Callers : titleAction(c)
    \/ \E c \in Callers : waitVisibleAction(c)
    \/ \E c \in Callers : navTimeout(c)

NextNav ==
    \/ navCalls
    \/ \E c \in Callers : confirmGet(c)

SpecNav == InitNav /\ [][NextNav]_vars

\* C1: at most one Manager call that runs browser actions is in flight on
\* the attached session at any time.
C1_AtMostOneCallInFlight == Cardinality(InFlight) <= 1

\* C2: of Navigate calls to different URLs, every one that reports success
\* returns the title of the page of its own URL, and once all calls are
\* done the tab shows one of the URLs navigated to.
C2_OwnTitleReturned ==
    /\ \A c \in Callers :
         (/\ cpc[c] = "done" /\ cres[c].success
          /\ \A d \in Callers \ {c} : carg[d].url # carg[c].url)
            => cres[c].title = TitleOf(carg[c].url)
    /\ (\A c \in Callers : cpc[c] = "done" /\ cres[c].success)
            => \E c \in Callers : pageURL = carg[c].url

(***************************************************************************)
(* FillForm of both managers.                                              *)
(***************************************************************************)

\* submitSelectors of Manager.FillForm (lines 322-328).
submitSelectorsManager ==
    << "input[type='submit']", "button[type='submit']", "form button",
       ".submit-button", "[role='button'][type='submit']" >>

Range(seq) == { seq[i] : i \in DOMAIN seq }

\* The clicks the loop of lines 330-333 appends: it breaks after its first
\* iteration.
submitClicksManager == SubSeq(submitSelectorsManager, 1, 1)

\* The actions Manager.FillForm hands to chromedp.Run (lines 312-334):
\* a SendKeys per field, then the clicks.
managerFillActions(order, submit) ==
    order \o (IF submit THEN submitClicksManager ELSE << >>)

FormSels == FieldSels \cup Range(submitSelectorsManager)

NoFillResult == [success |-> FALSE, msg |-> << >>]

\* EnhancedManager.FillForm (lines 587-628).
fillFormEnhanced ==
    /\ fpc = "idle"
    /\ \E order \in FieldOrders, submit \in BOOLEAN, up \in BOOLEAN :
         LET r == EnhancedFillForm(order, submit, present, up)
         IN  /\ fcall' = [backend |-> "rich", order |-> order,
                          submit |-> submit, actions |-> << >>, idx |-> 1,
                          ctxLive |-> TRUE]
             /\ fres' = [success |-> r.success, msg |-> r.msg]
             /\ typed' = r.typed
             /\ clicked' = r.clicked
    /\ fpc' = "done"
    /\ UNCHANGED << opVars, envVars, mgrVars, richVars, srvVars, tabVars,
                    navVars, sessVars >>

fillSucceeded(submit) ==
    /\ fpc' = "done"
    /\ fres' = [success |-> TRUE,
                msg |-> << "Form filled successfully" >> \o
                        (IF submit THEN << " and submitted" >> ELSE << >>)]

fillFailed(cause) ==
    /\ fpc' = "done"
    /\ fres' = [success |-> FALSE, msg |-> << "Form filling failed: ", cause >>]

\* Manager.FillForm from its entry to the start of chromedp.Run (line 336),
\* and lines 342-348 when there is no action to run.
fillFormManager ==
    /\ fpc = "idle"
    /\ \E order \in FieldOrders, submit \in BOOLEAN :
         LET acts == managerFillActions(order, submit)
         IN  /\ fcall' = [backend |-> "legacy", order |-> order,
                          submit |-> submit, actions |-> acts, idx |-> 1,
                          ctxLive |-> ~mctx.cancelled]
             /\ IF mctx.cancelled THEN fillFailed("context canceled")
                ELSE IF acts = << >> THEN fillSucceeded(submit)
                ELSE fpc' = "running" /\ UNCHANGED fres
    /\ UNCHANGED << typed, clicked, opVars, envVars, mgrVars, richVars,
                    srvVars, tabVars, navVars, sessVars >>

\* One action of the chromedp.Run of Manager.FillForm: SendKeys and Click
\* wait for their selector to match, so the step is taken only when it
\* does; after the last action, lines 342-348.
fillFormManagerAction ==
    /\ fpc = "running"
    /\ ~mctx.cancelled
    /\ LET i == fcall.idx
           sel == fcall.actions[i]
       IN  /\ sel \in present
           /\ \E ok \in BOOLEAN :
                IF ~ok
                THEN /\ fillFailed("protocol error")
                     /\ UNCHANGED << fcall, typed, clicked >>
                ELSE /\ IF i <= Len(fcall.order)
                        THEN typed' = Append(typed, sel) /\ UNCHANGED clicked
                        ELSE clicked' = Append(clicked, sel) /\ UNCHANGED typed
                     /\ fcall' = [fcall EXCEPT !.idx = i + 1]
                     /\ IF i = Len(fcall.actions)
                        THEN fillSucceeded(fcall.submit)
                        ELSE UNCHANGED << fpc, fres >>
    /\ UNCHANGED << opVars, envVars, mgrVars, richVars, srvVars, tabVars,
                    navVars, sessVars >>

\* The chromedp.Run of Manager.FillForm returns because m.ctx is done
\* (lines 336-340).
fillFormManagerCancelled ==
    /\ fpc = "running"
    /\ mctx.cancelled
    /\ fillFailed("context canceled")
    /\ UNCHANGED << fcall, typed, clicked, opVars, envVars, mgrVars, richVars,
                    srvVars, tabVars, navVars, sessVars >>

\* Manager.Close (lines 188-195): m.cancel() when m.cancel is not nil; Init
\* assigns m.ctx and m.cancel together (lines 75-76, 86).
managerClose ==
    /\ mctx' = IF mctx.port # 0 THEN [mctx EXCEPT !.cancelled = TRUE] ELSE mctx
    /\ closeCalled' = TRUE
    /\ opened' = {}
    /\ UNCHANGED << probed, mpc, portIdx, attachVia, minitErr, opVars, envVars,
                    richVars, srvVars, tabVars, navVars, formVars, sessVars >>

InitForm ==
    /\ mgrAttached
    /\ srvUnused
    /\ tabIdle
    /\ present \in SUBSET FormSels
    /\ navIdle
    /\ formIdle
    /\ sessIdle
    /\ opsIdle

NextForm ==
    \/ fillFormEnhanced
    \/ fillFormManager
    \/ fillFormManagerAction
    \/ fillFormManagerCancelled
    \/ managerClose

SpecForm == InitForm /\ [][NextForm]_vars

\* The submit-control selectors of the backend of the call.
submitSelsOf(backend) ==
    IF backend = "rich" THEN Range(submitSelectorsEnhanced)
    ELSE Range(submitSelectorsManager)

\* C9: a FillForm with submit=true, made on an open manager, that has
\* filled its fields on a page where no submit-control selector matches,
\* returns success=true with the message annotated "submit button not
\* found".
C9_MissingSubmitIsSoftSuccess ==
    (/\ fpc = "done"
     /\ fcall.submit
     /\ fcall.ctxLive
     /\ fcall.order # << >>
     /\ typed = fcall.order
     /\ submitSelsOf(fcall.backend) \cap present = {})
        => /\ fres.success
           /\ Contains(fres.msg, notSubmittedNote)

(***************************************************************************)
(* RestoreSession of both managers.  The browser refuses to set the        *)
(* cookies whose name is in `rejects`.                                     *)
(***************************************************************************)

\* The greatest number of cookies of a SessionData.
MaxCookies == 2

CookieNames == { "sid", "pref", "tok" }

\* The host of a URL.
HostOf(url) ==
    CASE url = "https://a.example" -> "a.example"
      [] url = "https://b.example" -> "b.example"
      [] OTHER -> ""

\* The fields of network.Cookie that the managers read (lines 387-391 and
\* 639-643); the cookie named n of the site a.example.
cookie(n) ==
    [name |-> n, value |-> "v-" \o n, domain |-> "a.example", path |-> "/",
     secure |-> n \in {"sid", "tok"}, httpOnly |-> n = "sid"]

Cookies == { cookie(n) : n \in CookieNames }

\* The cookie lists of a SessionData: at most MaxCookies distinct cookies.
CookieSeqs ==
    UNION { { o \in [1..n -> Cookies] :
                \A i, j \in 1..n : i # j => o[i] # o[j] } : n \in 0..MaxCookies }

\* The browser keeps one cookie per name, domain and path.
cookieKey(c) == << c.name, c.domain, c.path >>

\* The cookie jar after setting the cookies of S.
setCookies(J, S) ==
    { d \in J : \A c \in S : cookieKey(c) # cookieKey(d) } \cup S

\* The http.Cookie of lines 669-673 as the browser stores it on the page
\* at url: Domain, Secure and HttpOnly are left at their zero values.
httpCookie(c, url) ==
    [name |-> c.name, value |-> c.value, domain |-> HostOf(url),
     path |-> c.path, secure |-> FALSE, httpOnly |-> FALSE]

\* The least index of cookies the browser refuses, 0 if none.
firstRejected(cookies) ==
    LET bad == { i \in DOMAIN cookies : cookies[i].name \in rejects }
    IN  IF bad = {} THEN 0 ELSE CHOOSE i \in bad : \A j \in bad : i <= j

\* A failure result that carries cookies_restored.
restoreFailureCounted(text, cause, atNav) ==
    [success |-> FALSE, msg |-> << text, cause >>, hasCount |-> TRUE,
     cookies_restored |-> 0, navFailed |-> atNav]

\* A result map without the keys url and cookies_restored.
restoreFailure(text, cause, atNav) ==
    [success |-> FALSE, msg |-> << text, cause >>, hasCount |-> FALSE,
     cookies_restored |-> 0, navFailed |-> atNav]

restoreSuccess(text, n) ==
    [success |-> TRUE, msg |-> << text >>, hasCount |-> TRUE,
     cookies_restored |-> n, navFailed |-> FALSE]

\* Manager.RestoreSession (lines 373-405): one chromedp.Run of the
\* navigation, when the URL is not empty, and of a SetCookie per cookie; Run
\* stops at the first action that fails.  steps: what the call asked of the
\* browser, in order.
managerRestoreSession(cookies, url) ==
    /\ rpc = "idle"
    /\ ~mctx.cancelled
    /\ \E navOK \in BOOLEAN :
         LET f == firstRejected(cookies)
             nav == IF url # "" THEN << "navigate" >> ELSE << >>
             sets == [i \in 1..(IF f # 0 THEN f ELSE Len(cookies)) |->
                        "setCookie"]
         IN  /\ rcall' = [backend |-> "legacy", cookies |-> cookies,
                          url |-> url,
                          steps |-> IF url # "" /\ ~navOK THEN nav
                                    ELSE nav \o sets]
             /\ IF url # "" /\ ~navOK
                THEN /\ rres' = restoreFailure("Session restore failed: ",
                                               "net error", TRUE)
                     /\ UNCHANGED << pageURL, pageReady, jar >>
                ELSE /\ pageURL' = IF url # "" THEN url ELSE pageURL
                     /\ pageReady' = TRUE
                     /\ IF f # 0
                        THEN /\ jar' = setCookies(jar,
                                         Range(SubSeq(cookies, 1, f - 1)))
                             /\ rres' = restoreFailure("Session restore failed: ",
                                                       "invalid cookie", FALSE)
                        ELSE /\ jar' = setCookies(jar, Range(cookies))
                             /\ rres' = restoreSuccess(
                                          "Session restored successfully",
                                          Len(cookies))
    /\ rpc' = "done"
    /\ UNCHANGED << present, rejects >>

\* A call of Manager.RestoreSession by itself.
restoreManager(cookies, url) ==
    /\ managerRestoreSession(cookies, url)
    /\ UNCHANGED << opVars, envVars, mgrVars, richVars,
                    srvVars, navVars, formVars >>

\* Manager.RestoreSession of a SessionData of the caller.
restoreSessionManager ==
    \E cookies \in CookieSeqs, url \in {"", "https://a.example"} :
        restoreManager(cookies, url)

\* EnhancedManager.RestoreSession (lines 659-696): one m.client.SetCookies
\* of the whole list, then m.client.Get of the URL when it is not empty.
\* When the browser refuses a cookie, SetCookies either returns an error
\* (strict) or skips the cookie and returns nil.
restoreEnhanced(cookies, url) ==
    /\ rpc = "idle"
    /\ \E strict \in BOOLEAN, getOK \in BOOLEAN :
         LET f == firstRejected(cookies)
             httpCookies == [i \in DOMAIN cookies |->
                               httpCookie(cookies[i], pageURL)]
         IN  /\ rcall' = [backend |-> "rich", cookies |-> cookies,
                          url |-> url,
                          steps |->
                            IF f # 0 /\ strict
                            THEN [i \in 1..f |-> "setCookie"]
                            ELSE [i \in DOMAIN cookies |-> "setCookie"]
                                   \o (IF url # "" THEN << "navigate" >>
                                       ELSE << >>)]
             /\ IF f # 0 /\ strict
                THEN /\ jar' = setCookies(jar,
                                 Range(SubSeq(httpCookies, 1, f - 1)))
                     /\ rres' = restoreFailure(
                                  "Enhanced session restore failed: ", LibErr,
                                  FALSE)
                     /\ UNCHANGED << pageURL, pageReady >>
                ELSE /\ jar' = setCookies(jar,
                                 { c \in Range(httpCookies) :
                                     c.name \notin rejects })
                     /\ IF url # "" /\ ~getOK
                        THEN /\ rres' = restoreFailure(
                                          "Could not navigate to saved URL: ",
                                          LibErr, TRUE)
                             /\ UNCHANGED << pageURL, pageReady >>
                        ELSE /\ pageURL' = IF url # "" THEN url ELSE pageURL
                             /\ pageReady' = TRUE
                             /\ rres' = restoreSuccess(
                                          "Enhanced session restored successfully",
                                          Len(httpCookies))
    /\ rpc' = "done"
    /\ UNCHANGED << present, rejects, opVars, envVars, mgrVars, richVars,
                    srvVars, navVars, formVars >>

\* EnhancedManager.RestoreSession of a SessionData of the caller.
restoreSessionEnhanced ==
    \E cookies \in CookieSeqs, url \in {"", "https://a.example"} :
        restoreEnhanced(cookies, url)

InitSession ==
    /\ mgrAttached
    /\ srvUnused
    /\ pageURL = "about:blank"
    /\ pageReady = TRUE
    /\ jar = {}
    /\ rejects \in SUBSET CookieNames
    /\ present = {}
    /\ navIdle
    /\ formIdle
    /\ sessIdle
    /\ opsIdle

NextSession ==
    \/ restoreSessionManager
    \/ restoreSessionEnhanced

SpecSession == InitSession /\ [][NextSession]_vars

\* The cookies of the list whose own set operation does not fail.
settable(cookies) ==
    { i \in DOMAIN cookies : cookies[i].name \notin rejects }

\* C10: a RestoreSession whose navigation did not fail reports
\* cookies_restored, and it is the number of cookies of the list whose set
\* operation did not fail.
C10_CountsCookiesThatDidNotFail ==
    (rpc = "done" /\ ~rres.navFailed)
        => /\ rres.hasCount
           /\ rres.cookies_restored = Cardinality(settable(rcall.cookies))

\* C11: a RestoreSession that navigated to the saved URL and in which the
\* browser refused a cookie returns success=true with cookies_restored, and
\* every cookie of the list the browser accepts, those after the refused one
\* included, is set.
C11_PartialRestoreNonFatal ==
    (/\ rpc = "done"
     /\ rcall.url # ""
     /\ pageURL = rcall.url
     /\ firstRejected(rcall.cookies) # 0)
        => /\ rres.success
           /\ rres.hasCount
           /\ \A i \in settable(rcall.cookies) :
                \E c \in jar : c.name = rcall.cookies[i].name

(***************************************************************************)
(* GetSessionData of both managers, and RestoreSession of the record it    *)
(* returned.  GetSessionData returns the pointer m.sessionData: a record   *)
(* handed out is the manager's own SessionData object.                     *)
(***************************************************************************)

\* The greatest number of calls of GetSessionData.
MaxCaptures == 2

\* The cookies the browser sends to the page at url.
visible(J, url) == { c \in J : c.domain = HostOf(url) }

RECURSIVE seqOf(_)
\* The cookies of S as a list.
seqOf(S) ==
    IF S = {} THEN << >>
    ELSE LET c == CHOOSE x \in S : TRUE
         IN  << c >> \o seqOf(S \ {c})

\* The network.Cookie of lines 639-643: Name, Value and Path are copied,
\* the other fields keep their zero values.
networkCookie(c) ==
    [name |-> c.name, value |-> c.value, domain |-> "", path |-> c.path,
     secure |-> FALSE, httpOnly |-> FALSE]

\* What a GetSessionData leaves for C12 and C13: the record it returns and
\* the browser as it was.
captured(b, rec, whole) ==
    /\ sessionData' = [sessionData EXCEPT ![b] = rec]
    /\ handed' = Append(handed, [backend |-> b, snap |-> rec])
    /\ cap' = [backend |-> b, url |-> pageURL, jar |-> jar,
               complete |-> whole, fresh |-> TRUE]

\* Manager.GetSessionData (lines 352-370).  got: the Run of line 355 and
\* the GetCookies in it succeed ("ok"), GetCookies fails and its error is
\* dropped ("nil"), or the Run fails ("kept").
managerGetSessionData ==
    /\ rpc = "idle"
    /\ Len(handed) < MaxCaptures
    /\ ~mctx.cancelled
    /\ \E got \in {"ok", "nil", "kept"}, locOK \in BOOLEAN :
         LET old == sessionData["legacy"]
             rec == [cookies |-> CASE got = "ok" ->
                                        seqOf(visible(jar, pageURL))
                                   [] got = "nil" -> << >>
                                   [] OTHER -> old.cookies,
                     url |-> IF locOK THEN pageURL ELSE old.url,
                     userAgent |-> old.userAgent,
                     timestamp |-> now + 1]
         IN  captured("legacy", rec, got = "ok" /\ locOK)
    /\ now' = now + 1

\* A call of Manager.GetSessionData by itself.
getSessionDataManager ==
    /\ managerGetSessionData
    /\ UNCHANGED << envVars, mgrVars, richVars, srvVars, tabVars, navVars,
                    formVars, sessVars, capOthers >>

\* EnhancedManager.GetSessionData (lines 631-656).
getSessionDataEnhanced ==
    /\ rpc = "idle"
    /\ Len(handed) < MaxCaptures
    /\ \E cookiesOK \in BOOLEAN, evalOK \in BOOLEAN :
         LET old == sessionData["rich"]
             cookies == seqOf(visible(jar, pageURL))
             networkCookies == [i \in DOMAIN cookies |->
                                  networkCookie(cookies[i])]
             rec == [cookies |-> IF cookiesOK THEN networkCookies
                                 ELSE old.cookies,
                     url |-> IF evalOK THEN pageURL ELSE old.url,
                     userAgent |-> old.userAgent,
                     timestamp |-> now + 1]
         IN  captured("rich", rec, cookiesOK /\ evalOK)
    /\ now' = now + 1
    /\ UNCHANGED << envVars, mgrVars, richVars, srvVars, tabVars, navVars,
                    formVars, sessVars, capOthers >>

\* The user of the browser moves to another page, and the sites set and
\* drop cookies.
browserChanges ==
    /\ rpc = "idle"
    /\ Len(handed) < MaxCaptures
    /\ pageURL' \in NavUrls
    /\ jar' \in SUBSET Cookies
    /\ cap' = [cap EXCEPT !.fresh = FALSE]
    /\ UNCHANGED << pageReady, present, rejects, sessionData, handed, now,
                    envVars, mgrVars, richVars, srvVars, navVars, formVars,
                    sessVars, capOthers >>

\* RestoreSession of the record the last GetSessionData returned, by the
\* manager that returned it.
restoreCaptured ==
    /\ handed # << >>
    /\ LET b == handed[Len(handed)].backend
           rec == sessionData[b]
       IN  IF b = "legacy" THEN restoreManager(rec.cookies, rec.url)
           ELSE restoreEnhanced(rec.cookies, rec.url)

InitCapture ==
    /\ mgrAttached
    /\ srvUnused
    /\ pageURL \in NavUrls
    /\ pageReady = TRUE
    /\ jar \in SUBSET Cookies
    /\ rejects \in SUBSET { "sid" }
    /\ present = {}
    /\ navIdle
    /\ formIdle
    /\ sessIdle
    /\ opsIdle

NextCapture ==
    \/ getSessionDataManager
    \/ getSessionDataEnhanced
    \/ browserChanges
    \/ restoreCaptured

SpecCapture == InitCapture /\ [][NextCapture]_vars

\* C12: after a GetSessionData all of whose reads succeeded, followed at
\* once by a RestoreSession of the record it returned that succeeds, the
\* browser is at the URL and holds the cookies (name, value, domain, path,
\* secure, http-only) that it was at and held at the GetSessionData.
C12_CaptureRestoreRoundTrip ==
    (rpc = "done" /\ rres.success /\ cap.fresh /\ cap.complete)
        => /\ pageURL = cap.url
           /\ jar = cap.jar

\* C13: a record that GetSessionData returned has the cookies, URL and
\* timestamp it had when it was returned.
C13_ReturnedRecordImmutable ==
    \A i \in DOMAIN handed : sessionData[handed[i].backend] = handed[i].snap

(***************************************************************************)
(* wait_for_element and wait_advanced.  Time is counted in tenths of a     *)
(* second; the timeout argument is a JSON number of seconds, given here in *)
(* tenths.                                                                 *)
(***************************************************************************)

\* time.Second, in tenths of a second.
Second == 10

\* The greatest timeout argument, in tenths of a second.
MaxTimeout == 15

\* The timeout arguments: none or zero, and from one second up.
TimeoutArgs == {0} \cup Second..MaxTimeout

\* handleChromeWaitForElement (part_001 lines 315-320): a timeout that is
\* not positive becomes 10, and time.Duration(timeout * float64(time.Second))
\* keeps the fraction.
durationWaitForElement(t) == IF t <= 0 THEN 10 * Second ELSE t

\* handleWaitAdvanced (line 391): time.Duration(timeout) converts the
\* float64 to an integer, dropping the fraction, before the multiplication
\* by time.Second.
durationWaitAdvanced(t) == (t \div Second) * Second

\* The handler returns r; afterClose: Manager.Close had been called by
\* then.
waitReturns(r) ==
    /\ wpc' = "done"
    /\ wres' = [isError |-> r.isError, success |-> r.success, msg |-> r.msg,
                after |-> r.after, afterClose |-> closeCalled]

\* The handler does not return: context.WithTimeout panics on the nil
\* parent that m.ctx is before Init (manager.go line 420).
waitPanics ==
    /\ wpc' = "panicked"
    /\ wres' = [isError |-> TRUE, success |-> FALSE,
                msg |-> << "cannot create context from nil parent" >>,
                after |-> 0, afterClose |-> closeCalled]

\* handleChromeWaitForElement (part_001 lines 309-333) up to the start of
\* chromedp.Run in Manager.WaitForElement (manager.go line 423).
handleChromeWaitForElement ==
    /\ wpc = "idle"
    /\ \E selector \in {"", "#main"}, t \in TimeoutArgs :
         /\ wcall' = [tool |-> "chrome_wait_for_element", backend |-> "legacy",
                      selector |-> selector, timeout |-> t,
                      duration |-> durationWaitForElement(t)]
         /\ IF selector = ""
            THEN waitReturns([isError |-> TRUE, success |-> FALSE,
                              msg |-> << "Selector parameter is required" >>,
                              after |-> 0])
            ELSE IF mctx = NilCtx THEN waitPanics
            ELSE wpc' = "waiting" /\ UNCHANGED wres
    /\ UNCHANGED << elapsed, waitOthers, envVars, mgrVars,
                    richVars, srvVars,
                    tabVars, navVars, formVars, sessVars >>

\* handleWaitAdvanced (enhanced_server.go lines 388-414) up to the wait of
\* client.WaitForElement (manager.go line 832).
waitAdvancedStart ==
    /\ wpc = "idle"
    /\ \E selector \in {"", "#main"}, text \in {"", "hello"},
          t \in TimeoutArgs :
         /\ wcall' = [tool |-> "chrome_wait_advanced", backend |-> "rich",
                      selector |-> selector, timeout |-> t,
                      duration |-> durationWaitAdvanced(t)]
         /\ IF selector = "" /\ text = ""
            THEN waitReturns([isError |-> TRUE, success |-> FALSE,
                              msg |-> << "Either selector or text parameter is required" >>,
                              after |-> 0])
            ELSE IF selector = ""
            THEN waitReturns([isError |-> FALSE, success |-> TRUE,
                              msg |-> << "Wait condition met" >>, after |-> 0])
            ELSE wpc' = "waiting" /\ UNCHANGED wres
    /\ UNCHANGED << elapsed, waitOthers, envVars, mgrVars,
                    richVars, srvVars,
                    tabVars, navVars, formVars, sessVars >>

\* The wait runs under m.ctx, and m.ctx is done.
waitCtxDone == wcall.backend = "legacy" /\ mctx.cancelled

\* A tenth of a second passes while the wait is under way and its deadline
\* is not reached.
waitTick ==
    /\ wpc = "waiting"
    /\ ~waitCtxDone
    /\ elapsed < wcall.duration
    /\ wcall.selector \notin present
    /\ elapsed' = elapsed + 1
    /\ UNCHANGED << wpc, wcall, wres, waitOthers, envVars, mgrVars,
                    richVars,
                    srvVars, tabVars, navVars, formVars, sessVars >>

\* The element is visible: WaitVisible returns nil, and the handler
\* returns its success (part_001 lines 326-332, enhanced_server.go lines
\* 407-413).
waitFound ==
    /\ wpc = "waiting"
    /\ ~waitCtxDone
    /\ wcall.selector \in present
    /\ waitReturns([isError |-> FALSE, success |-> TRUE,
                    msg |-> IF wcall.backend = "legacy"
                            THEN << "Element '", wcall.selector,
                                    "' found within ", "seconds" >>
                            ELSE << "Wait condition met" >>,
                    after |-> elapsed])
    /\ UNCHANGED << wcall, elapsed, waitOthers, envVars, mgrVars,
                    richVars,
                    srvVars, tabVars, navVars, formVars, sessVars >>

\* The deadline of the wait is reached: WaitForElement returns the error
\* and the handler wraps it (part_001 lines 323-325, enhanced_server.go
\* lines 403-405).
waitDeadline ==
    /\ wpc = "waiting"
    /\ ~waitCtxDone
    /\ elapsed >= wcall.duration
    /\ wcall.selector \notin present
    /\ waitReturns([isError |-> TRUE, success |-> FALSE,
                    msg |-> << "Wait failed", "context deadline exceeded" >>,
                    after |-> elapsed])
    /\ UNCHANGED << wcall, elapsed, waitOthers, envVars, mgrVars,
                    richVars,
                    srvVars, tabVars, navVars, formVars, sessVars >>

\* m.ctx is done, by Close, while the wait is under way or when it starts:
\* chromedp.Run returns its error.
waitCancelled ==
    /\ wpc = "waiting"
    /\ waitCtxDone
    /\ waitReturns([isError |-> TRUE, success |-> FALSE,
                    msg |-> << "Wait failed", "context canceled" >>,
                    after |-> elapsed])
    /\ UNCHANGED << wcall, elapsed, waitOthers, envVars, mgrVars,
                    richVars, srvVars, tabVars, navVars, formVars, sessVars >>

InitWait ==
    /\ mgrAttached
    /\ srvUnused
    /\ tabIdle
    /\ present \in { {}, {"#main"} }
    /\ navIdle
    /\ formIdle
    /\ sessIdle
    /\ opsIdle

NextWait ==
    \/ handleChromeWaitForElement
    \/ waitAdvancedStart
    \/ waitTick
    \/ waitFound
    \/ waitDeadline

SpecWait == InitWait /\ [][NextWait]_vars

\* C14: a wait for a selector that never becomes visible, with a positive
\* timeout argument, returns its failure only when at least that much time
\* has passed since the wait began.
C14_FailsOnlyAfterFullTimeout ==
    (/\ wpc = "done"
     /\ wcall.selector # ""
     /\ wcall.timeout > 0
     /\ ~wres.success)
        => wres.after >= wcall.timeout

(***************************************************************************)
(* The calls of Manager whose chromedp.Run is given m.ctx itself.          *)
(***************************************************************************)

\* FillForm with a scheduler that runs the goroutine of chromedp.Run
\* whenever its next action can be taken; nothing obliges anyone to call
\* Close.
SpecFormLive ==
    /\ InitForm
    /\ [][NextForm]_vars
    /\ WF_vars(fillFormManagerAction)
    /\ WF_vars(fillFormManagerCancelled)

\* C15: a Manager capability call whose chromedp.Run is under way returns.
C15_CallReturnsWithinItsTimeout == (fpc = "running") ~> (fpc = "done")

(***************************************************************************)
(* Navigate of EnhancedManager, and Click and ExtractText of both          *)
(* managers; then every call that returns a result, one call at a time.    *)
(***************************************************************************)

PrimSels == { "#main", "#user" }

\* The text contents of the elements that match sel.
TextsOf(sel, onPage) == IF sel \in onPage THEN << "text of " \o sel >> ELSE << >>

\* A NavigateResult, ClickResult or ExtractTextResult: the fields a result
\* type lacks are left empty.
PrimResult(ok, m, t, shot, texts) ==
    [success |-> ok, msg |-> m, title |-> t, screenshot |-> shot,
     text |-> texts]

primReturns(r) ==
    /\ ppc' = "done"
    /\ pret' = r

\* EnhancedManager.Navigate (lines 504-542).
navigateEnhanced ==
    /\ ppc = "idle"
    /\ \E waitFor \in {"", "#main"}, screenshot \in BOOLEAN,
          getOK \in BOOLEAN, waitOK \in BOOLEAN :
         LET url == "https://a.example"
             r == EnhancedNavigate(url, waitFor, screenshot, getOK, waitOK)
         IN  /\ pcall' = [op |-> "Navigate", backend |-> "rich",
                          selector |-> waitFor, screenshot |-> screenshot,
                          waitFailed |-> getOK /\ waitFor # "" /\ ~waitOK]
             /\ primReturns(PrimResult(r.success, r.msg, r.title,
                                       r.screenshot, << >>))
             /\ pageURL' = IF getOK THEN url ELSE pageURL
    /\ UNCHANGED << pageReady, present, jar, rejects, primOthers,
                    envVars, mgrVars, richVars, srvVars, navVars, formVars,
                    sessVars >>

\* EnhancedManager.Click (lines 545-564).
clickEnhanced ==
    /\ ppc = "idle"
    /\ \E selector \in PrimSels, screenshot \in BOOLEAN, up \in BOOLEAN :
         /\ pcall' = [op |-> "Click", backend |-> "rich",
                      selector |-> selector, screenshot |-> screenshot,
                      waitFailed |-> FALSE]
         /\ primReturns(
              IF clientActs(selector, present, up)
              THEN PrimResult(TRUE, << "Enhanced click successful" >>, "",
                              IF screenshot THEN "screenshot_after_click"
                              ELSE "", << >>)
              ELSE PrimResult(FALSE, << "Enhanced click failed: ", LibErr >>,
                              "", "", << >>))
    /\ UNCHANGED << primOthers, envVars, mgrVars, richVars, srvVars,
                    tabVars, navVars, formVars, sessVars >>

\* EnhancedManager.ExtractText (lines 567-584).
extractTextEnhanced ==
    /\ ppc = "idle"
    /\ \E selector \in PrimSels, up \in BOOLEAN :
         /\ pcall' = [op |-> "ExtractText", backend |-> "rich",
                      selector |-> selector, screenshot |-> FALSE,
                      waitFailed |-> FALSE]
         /\ primReturns(
              IF up
              THEN PrimResult(TRUE, << "Extracted ", "text elements" >>, "",
                              "", TextsOf(selector, present))
              ELSE PrimResult(FALSE,
                              << "Enhanced text extraction failed: ", LibErr >>,
                              "", "", << >>))
    /\ UNCHANGED << primOthers, envVars, mgrVars, richVars, srvVars,
                    tabVars, navVars, formVars, sessVars >>

\* Manager.Click (lines 256-287) and Manager.ExtractText (lines 290-306) up
\* to the start of their chromedp.Run.
primManager ==
    /\ ppc = "idle"
    /\ \E op \in {"Click", "ExtractText"}, selector \in PrimSels,
          screenshot \in BOOLEAN :
         pcall' = [op |-> op, backend |-> "legacy", selector |-> selector,
                   screenshot |-> screenshot /\ op = "Click",
                   waitFailed |-> FALSE]
    /\ ppc' = "running"
    /\ UNCHANGED << pret, primOthers, envVars, mgrVars, richVars,
                    srvVars, tabVars, navVars, formVars, sessVars >>

\* The failure prefix of a method of Manager (lines 269, 279, 299).
primFailText(op) ==
    IF op = "Click" THEN "Click failed: " ELSE "Text extraction failed: "

\* The chromedp.Run of Manager.Click or Manager.ExtractText returns, and
\* the method does (lines 267-286, 294-305): Click waits for its selector to
\* match, Evaluate does not wait.
primManagerRun ==
    /\ ppc = "running"
    /\ ~mctx.cancelled
    /\ pcall.op = "Click" => pcall.selector \in present
    /\ \E ok \in BOOLEAN :
         primReturns(
           IF ~ok
           THEN PrimResult(FALSE, << primFailText(pcall.op), "protocol error" >>,
                           "", "", << >>)
           ELSE IF pcall.op = "Click"
           THEN PrimResult(TRUE, << "Click successful" >>, "",
                           IF pcall.screenshot THEN "base64 of the PNG"
                           ELSE "", << >>)
           ELSE PrimResult(TRUE, << >>, "", "",
                           TextsOf(pcall.selector, present)))
    /\ UNCHANGED << pcall, primOthers, envVars, mgrVars, richVars,
                    srvVars, tabVars, navVars, formVars, sessVars >>

\* The chromedp.Run of Manager.Click or Manager.ExtractText returns because
\* m.ctx is done.
primManagerCancelled ==
    /\ ppc = "running"
    /\ mctx.cancelled
    /\ primReturns(PrimResult(FALSE,
                              << primFailText(pcall.op), "context canceled" >>,
                              "", "", << >>))
    /\ UNCHANGED << pcall, primOthers, envVars, mgrVars, richVars,
                    srvVars, tabVars, navVars, formVars, sessVars >>

NextPrim ==
    \/ navigateEnhanced
    \/ clickEnhanced
    \/ extractTextEnhanced
    \/ primManager
    \/ primManagerRun
    \/ primManagerCancelled

\* No call of Manager.Navigate has been made.
navQuiet == \A c \in Callers : cpc[c] = "idle"

InitCalls ==
    /\ mgrAttached
    /\ srvUnused
    /\ pageURL = "about:blank"
    /\ pageReady = TRUE
    /\ jar = {}
    /\ rejects \in SUBSET { "sid" }
    /\ present \in SUBSET { "#user", "#main", "input[type='submit']" }
    /\ cpc = [c \in Callers |-> "idle"]
    /\ carg = [c \in Callers |-> [url |-> "", waitFor |-> ""]]
    /\ cres = [c \in Callers |-> NoNavResult]
    /\ loads = [c \in Callers |-> << >>]
    /\ gpc = [c \in Callers |-> "none"]
    /\ clientURL = "about:blank"
    /\ formIdle
    /\ sessIdle
    /\ opsIdle

\* The calls of one kind, while no call of another kind has been made, and
\* Close while no chromedp.Run of Navigate is under way.  The goroutines
\* that Navigate leaves behind, which touch none of the results, run in
\* SpecNav and SpecConfirm.
NextCalls ==
    \/ formIdle /\ sessIdle /\ primIdle /\ navCalls
    \/ navQuiet /\ sessIdle /\ primIdle /\ NextForm
    \/ navQuiet /\ formIdle /\ primIdle /\ NextSession
    \/ navQuiet /\ formIdle /\ sessIdle /\ NextPrim
    \/ InFlight = {} /\ managerClose

SpecCalls == InitCalls /\ [][NextCalls]_vars

\* C16: a Navigate whose wait for the wait_for selector failed returns
\* success=false with the error text in its message and no screenshot, and
\* a FillForm in which a field entry failed returns success=false after no
\* further entry and no click.
C16_PrimitiveFailureAborts ==
    /\ (ppc = "done" /\ pcall.op = "Navigate" /\ pcall.waitFailed)
          => /\ ~pret.success
             /\ pret.screenshot = ""
             /\ Contains(pret.msg, LibErr)
    /\ \A c \in Callers :
          (/\ cpc[c] = "done"
           /\ carg[c].waitFor # ""
           /\ carg[c].waitFor \notin present)
             => ~cres[c].success
    /\ (fpc = "done" /\ typed # fcall.order)
          => /\ ~fres.success
             /\ clicked = << >>

InitClose ==
    /\ \/ mgrAttached
       \/ /\ live = [p \in PortSet |-> p = DefaultPort]
          /\ verif = [p \in PortSet |-> p = DefaultPort]
          /\ ctxInherits = FALSE
          /\ mgrIdle
    /\ srvUnused
    /\ tabIdle
    /\ present \in { {}, {"#main"} }
    /\ navIdle
    /\ formIdle
    /\ sessIdle
    /\ opsIdle

NextClose ==
    \/ managerClose
    \/ handleChromeWaitForElement
    \/ waitTick
    \/ waitFound
    \/ waitDeadline
    \/ waitCancelled

SpecClose == InitClose /\ [][NextClose]_vars

\* C17: once Close has been called the scope of an attached session is
\* cancelled, whatever the number of calls of Close, and a call of
\* WaitForElement that ends after a Close ends by returning a failure.
C17_CloseIdempotentCallsFail ==
    /\ (closeCalled /\ mctx # NilCtx) => mctx.cancelled
    /\ (wpc \in {"done", "panicked"} /\ wcall.selector # "" /\ wres.afterClose)
          => /\ wpc = "done"
             /\ ~wres.success

(***************************************************************************)
(* storage.Manager: SaveSession and LoadSession, and the handlers of       *)
(* session_save and session_load.                                          *)
(***************************************************************************)

\* The greatest number of calls of session_save and session_load.
MaxStoreCalls == 2

\* json.Marshal of a SessionData (the tags of lines 27-32).
marshalSession(sd) ==
    [cookies |-> sd.cookies, url |-> sd.url, user_agent |-> sd.userAgent,
     timestamp |-> sd.timestamp]

\* json.Unmarshal into a SessionData (line 1048).
unmarshalSession(j) ==
    [cookies |-> j.cookies, url |-> j.url, userAgent |-> j.user_agent,
     timestamp |-> j.timestamp]

\* The rows of the table sessions whose name is name.
sessionRows(tbl, name) == { r \in tbl.sessions : r.name = name }

\* INSERT INTO sessions without OR REPLACE: every call adds a row.
insertSessionPlain(tbl, name, data, t) ==
    [tbl EXCEPT !.sessions = @ \cup {[id |-> tbl.seq + 1, name |-> name,
                                      data |-> data, updated_at |-> t]},
                !.seq = @ + 1]

\* INSERT OR REPLACE INTO sessions (line 1020) with name UNIQUE (line 967)
\* and id AUTOINCREMENT (line 966): the row of that name is deleted and a
\* row with the next id is inserted; updated_at is CURRENT_TIMESTAMP, t.
insertOrReplaceSession(tbl, name, data, t) ==
    [tbl EXCEPT !.sessions = (@ \ sessionRows(tbl, name))
                               \cup {[id |-> tbl.seq + 1, name |-> name,
                                      data |-> data, updated_at |-> t]},
                !.seq = @ + 1]

\* storage.Manager.SaveSession (lines 1009-1032) on the tables tbl at time
\* t: the result map, the error and the tables after it.  out: "ok", or
\* what fails,
\* json.Marshal ("marshalErr") or m.db.Exec ("dbErr").
SaveSession(tbl, name, sd, t, out) ==
    CASE out = "marshalErr" ->
           [result |-> [success |-> FALSE,
                        msg |-> << "Failed to serialize session data: ",
                                   "json" >>],
            err |-> NoErr, tbl |-> tbl]
      [] out = "dbErr" ->
           [result |-> [success |-> FALSE,
                        msg |-> << "Failed to save session: ", "sql" >>],
            err |-> NoErr, tbl |-> tbl]
      [] OTHER ->
           [result |-> [success |-> TRUE,
                        msg |-> << "Session saved successfully" >>],
            err |-> NoErr,
            tbl |-> insertOrReplaceSession(tbl, name, marshalSession(sd), t)]

\* A LoadSession that returns an empty SessionData and nil when no row
\* has the name.
LoadSessionEmpty(tbl, name, out) ==
    IF out = "dbErr"
    THEN [data |-> EmptySessionData,
          err |-> << "failed to load session: ", "sql" >>]
    ELSE IF sessionRows(tbl, name) = {}
    THEN [data |-> EmptySessionData, err |-> NoErr]
    ELSE [data |-> unmarshalSession(
                     (CHOOSE r \in sessionRows(tbl, name) : TRUE).data),
          err |-> NoErr]

\* storage.Manager.LoadSession (lines 1035-1053).  out: "ok", or "dbErr"
\* when the query fails.
LoadSession(tbl, name, out) ==
    IF out = "dbErr"
    THEN [data |-> EmptySessionData,
          err |-> << "failed to load session: ", "sql" >>]
    ELSE IF sessionRows(tbl, name) = {}
    THEN [data |-> EmptySessionData,
          err |-> << "session '", name, "' not found" >>]
    ELSE [data |-> unmarshalSession(
                     (CHOOSE r \in sessionRows(tbl, name) : TRUE).data),
          err |-> NoErr]

\* A tool result: isError is the flag of the mcp.CallToolResult, hardErr
\* tells that the storage method returned a non-nil error.
ToolResult(isErr, ok, m, hard) ==
    [isError |-> isErr, success |-> ok, msg |-> m, hardErr |-> hard]

\* handleSessionSave (part_001 lines 251-265).
handleSessionSave ==
    /\ tpc < MaxStoreCalls
    /\ \E name \in SessionNames \cup {""},
          out \in {"ok", "marshalErr", "dbErr"} :
         /\ tcall' = [tool |-> "session_save", name |-> name,
                      dbFailed |-> name # "" /\ out = "dbErr"]
         /\ IF name = ""
            THEN /\ tret' = ToolResult(TRUE, FALSE,
                                       << "Name parameter is required" >>,
                                       FALSE)
                 /\ UNCHANGED << store, saved, capVars >>
            ELSE /\ managerGetSessionData
                 /\ LET r == SaveSession(store, name, sessionData'["legacy"],
                                         now', out)
                    IN  /\ store' = r.tbl
                        /\ saved' = IF r.result.success
                                    THEN [saved EXCEPT ![name] =
                                            {sessionData'["legacy"]}]
                                    ELSE saved
                        /\ tret' = IF r.err # NoErr
                                   THEN ToolResult(TRUE, FALSE,
                                          << "Session save failed" >> \o r.err,
                                          TRUE)
                                   ELSE ToolResult(FALSE, r.result.success,
                                                   r.result.msg, FALSE)
    /\ tpc' = tpc + 1
    /\ UNCHANGED << logged, envVars, mgrVars, richVars, srvVars, tabVars,
                    navVars, formVars, sessVars, storOthers >>

\* handleSessionLoad (part_001 lines 267-285).
handleSessionLoad ==
    /\ tpc < MaxStoreCalls
    /\ \E name \in SessionNames \cup {""}, out \in {"ok", "dbErr"} :
         LET l == LoadSession(store, name, out)
         IN  /\ tcall' = [tool |-> "session_load", name |-> name,
                          dbFailed |-> name # "" /\ out = "dbErr"]
             /\ IF name = ""
                THEN /\ tret' = ToolResult(TRUE, FALSE,
                                           << "Name parameter is required" >>,
                                           FALSE)
                     /\ UNCHANGED << tabVars, sessVars >>
                ELSE IF l.err # NoErr
                THEN /\ tret' = ToolResult(TRUE, FALSE,
                                           << "Session load failed" >> \o l.err,
                                           TRUE)
                     /\ UNCHANGED << tabVars, sessVars >>
                ELSE /\ managerRestoreSession(l.data.cookies, l.data.url)
                     /\ tret' = ToolResult(FALSE, rres'.success, rres'.msg,
                                           FALSE)
    /\ tpc' = tpc + 1
    /\ UNCHANGED << store, saved, logged, capVars, envVars, mgrVars,
                    richVars, srvVars, navVars, formVars, storOthers >>

InitStore ==
    /\ mgrAttached
    /\ srvUnused
    /\ pageURL = "https://a.example"
    /\ pageReady = TRUE
    /\ jar \in SUBSET Cookies
    /\ rejects \in SUBSET { "sid" }
    /\ present = {}
    /\ navIdle
    /\ formIdle
    /\ sessIdle
    /\ opsIdle

NextStore ==
    \/ handleSessionSave
    \/ handleSessionLoad

SpecStore == InitStore /\ [][NextStore]_vars

\* C19: a session_save or session_load in which the database failed ends
\* with a non-nil error of SaveSession or LoadSession.
C19_StorageFailureIsHardError ==
    (tpc > 0 /\ tcall.dbFailed) => tret.hardErr

(***************************************************************************)
(* The tools the server of the `server` command exposes.                   *)
(***************************************************************************)

\* The tools the README lists (lines 104-133).
DocumentedTools ==
    { "chrome_navigate", "chrome_click", "chrome_extract_text",
      "chrome_fill_form", "chrome_screenshot", "chrome_wait_for_element",
      "chrome_extract_links", "chrome_extract_images", "chrome_extract_forms",
      "chrome_analyze_seo", "chrome_get_performance", "chrome_check_security",
      "chrome_post_json", "chrome_wait_advanced", "chrome_get_local_storage",
      "chrome_set_local_storage", "chrome_clear_session", "session_save",
      "session_load" }

\* The AddTool calls that registered the tool t.
registrations(t) == { i \in DOMAIN tools : tools[i].name = t }

\* C20: the serving server has each of the 19 documented tools registered
\* exactly once, with a handler.
C20_DocumentedToolsRegisteredOnce ==
    spc = "serving"
        => \A t \in DocumentedTools :
              /\ Cardinality(registrations(t)) = 1
              /\ \A i \in registrations(t) : tools[i].handler # ""

(***************************************************************************)
(* storage.Manager called directly: SaveSession, LoadSession,              *)
(* DeleteSession, ListSessions, LogRequest, CleanupOldData, GetStats.      *)
(***************************************************************************)

\* The greatest number of calls of the methods of storage.Manager.
MaxStorageOps == 3

\* The latest time of the clock of the database.
MaxClock == 1

\* The SessionData the callers save.
SessionInputs ==
    { [cookies |-> << >>, url |-> "https://a.example",
       userAgent |-> "test-agent", timestamp |-> 1],
      [cookies |-> << cookie("sid") >>, url |-> "https://b.example",
       userAgent |-> "", timestamp |-> 2] }

\* The names with a stored session, by the history of the calls.
storedNames == { n \in SessionNames : saved[n] # {} }

\* The call a method of storage.Manager is entered with.
StorageCall(op, name, d, out) ==
    [op |-> op, name |-> name, d |-> d, dbFailed |-> out = "dbErr",
     before |-> store, stored |-> name \in storedNames]

\* What a method of storage.Manager returned; the fields it does not
\* return are empty.
StorageRet(err, ok, data, names, sessions, requests) ==
    [err |-> err, success |-> ok, data |-> data, names |-> names,
     sessions |-> sessions, requests |-> requests]

\* A DeleteSession that returns nil when no row was deleted.
DeleteSessionSilent(tbl, name, out) ==
    IF out = "dbErr"
    THEN [tbl |-> tbl, err |-> << "failed to delete session: ", "sql" >>]
    ELSE [tbl |-> [tbl EXCEPT !.sessions = @ \ sessionRows(tbl, name)],
          err |-> NoErr]

\* storage.Manager.DeleteSession (lines 1087-1100).
DeleteSession(tbl, name, out) ==
    IF out = "dbErr"
    THEN [tbl |-> tbl, err |-> << "failed to delete session: ", "sql" >>]
    ELSE IF sessionRows(tbl, name) = {}
    THEN [tbl |-> tbl, err |-> << "session '", name, "' not found" >>]
    ELSE [tbl |-> [tbl EXCEPT !.sessions = @ \ sessionRows(tbl, name)],
          err |-> NoErr]

\* The orders ORDER BY updated_at DESC (line 1057) can return the rows in:
\* rows of one second come in any order.
listOrders(rows) ==
    { q \in [1..Cardinality(rows) -> rows] :
        /\ \A i, j \in DOMAIN q : i # j => q[i] # q[j]
        /\ \A i, j \in DOMAIN q : i < j => q[i].updated_at >= q[j].updated_at }

\* An INSERT INTO request_logs that reuses the id of the last row.
insertRequestLogSameId(tbl, t) ==
    [tbl EXCEPT !.request_logs = @ \cup {[id |-> tbl.logSeq, timestamp |-> t]}]

\* INSERT INTO request_logs (lines 1104-1107): id AUTOINCREMENT, timestamp
\* CURRENT_TIMESTAMP (lines 974, 982).
insertRequestLog(tbl, t) ==
    [tbl EXCEPT !.request_logs = @ \cup {[id |-> tbl.logSeq + 1,
                                          timestamp |-> t]},
                !.logSeq = @ + 1]

\* INSERT INTO screenshots (lines 1141-1144): id AUTOINCREMENT, created_at
\* CURRENT_TIMESTAMP (lines 983-993).
insertScreenshot(tbl, t) ==
    [tbl EXCEPT !.screenshots = @ \cup {[id |-> tbl.shotSeq + 1,
                                         created_at |-> t]},
                !.shotSeq = @ + 1]

\* A cleanup that applies the retention to the sessions as well.
cleanupTablesAll(tbl, cutoff) ==
    [tbl EXCEPT !.request_logs = { r \in @ : ~(r.timestamp < cutoff) },
                !.screenshots = { r \in @ : ~(r.created_at < cutoff) },
                !.sessions = { r \in @ : ~(r.updated_at < cutoff) }]

\* The DELETEs of CleanupOldData (lines 1184-1185 and 1211-1212): the
\* request_logs and the screenshots older than cutoff.
cleanupTables(tbl, cutoff) ==
    [tbl EXCEPT !.request_logs = { r \in @ : ~(r.timestamp < cutoff) },
                !.screenshots = { r \in @ : ~(r.created_at < cutoff) }]

\* SaveSession(name, d).
callSaveSession ==
    /\ tpc < MaxStorageOps
    /\ \E name \in SessionNames, d \in SessionInputs,
          out \in {"ok", "marshalErr", "dbErr"} :
         LET r == SaveSession(store, name, d, now, out)
         IN  /\ tcall' = StorageCall("SaveSession", name, {d}, out)
             /\ store' = r.tbl
             /\ saved' = IF r.result.success
                         THEN [saved EXCEPT ![name] = {d}]
                         ELSE saved
             /\ tret' = StorageRet(r.err, r.result.success, {}, << >>, 0, 0)
    /\ tpc' = tpc + 1
    /\ UNCHANGED << logged, envVars, mgrVars, richVars, srvVars, tabVars,
                    navVars, formVars, sessVars, capVars, storOthers >>

\* LoadSession(name).
callLoadSession ==
    /\ tpc < MaxStorageOps
    /\ \E name \in SessionNames, out \in {"ok", "dbErr"} :
         LET l == LoadSession(store, name, out)
         IN  /\ tcall' = StorageCall("LoadSession", name, {}, out)
             /\ tret' = StorageRet(l.err, l.err = NoErr,
                                   IF l.err = NoErr THEN {l.data} ELSE {},
                                   << >>, 0, 0)
    /\ tpc' = tpc + 1
    /\ UNCHANGED << store, saved, logged, envVars, mgrVars, richVars, srvVars,
                    tabVars, navVars, formVars, sessVars, capVars,
                    storOthers >>

\* DeleteSession(name).
callDeleteSession ==
    /\ tpc < MaxStorageOps
    /\ \E name \in SessionNames, out \in {"ok", "dbErr"} :
         LET r == DeleteSession(store, name, out)
         IN  /\ tcall' = StorageCall("DeleteSession", name, {}, out)
             /\ store' = r.tbl
             /\ saved' = IF r.err = NoErr
                         THEN [saved EXCEPT ![name] = {}]
                         ELSE saved
             /\ tret' = StorageRet(r.err, r.err = NoErr, {}, << >>, 0, 0)
    /\ tpc' = tpc + 1
    /\ UNCHANGED << logged, envVars, mgrVars, richVars, srvVars, tabVars,
                    navVars, formVars, sessVars, capVars, storOthers >>

\* ListSessions (lines 1056-1084): the names of the rows, in the order of
\* the query.
callListSessions ==
    /\ tpc < MaxStorageOps
    /\ \E out \in {"ok", "dbErr"} :
         /\ tcall' = StorageCall("ListSessions", "", {}, out)
         /\ IF out = "dbErr"
            THEN tret' = StorageRet(<< "failed to query sessions: ", "sql" >>,
                                    FALSE, {}, << >>, 0, 0)
            ELSE \E q \in listOrders(store.sessions) :
                   tret' = StorageRet(NoErr, TRUE, {},
                                      [i \in DOMAIN q |-> q[i].name], 0, 0)
    /\ tpc' = tpc + 1
    /\ UNCHANGED << store, saved, logged, envVars, mgrVars, richVars, srvVars,
                    tabVars, navVars, formVars, sessVars, capVars,
                    storOthers >>

\* LogRequest (lines 1103-1114).
callLogRequest ==
    /\ tpc < MaxStorageOps
    /\ \E out \in {"ok", "dbErr"} :
         /\ tcall' = StorageCall("LogRequest", "", {}, out)
         /\ IF out = "dbErr"
            THEN /\ tret' = StorageRet(<< "failed to log request: ", "sql" >>,
                                       FALSE, {}, << >>, 0, 0)
                 /\ UNCHANGED << store, logged >>
            ELSE /\ tret' = StorageRet(NoErr, TRUE, {}, << >>, 0, 0)
                 /\ store' = insertRequestLog(store, now)
                 /\ logged' = logged + 1
    /\ tpc' = tpc + 1
    /\ UNCHANGED << saved, envVars, mgrVars, richVars, srvVars, tabVars,
                    navVars, formVars, sessVars, capVars, storOthers >>

\* CleanupOldData(maxAge) (lines 1179-1217), the request logs of it: the
\* rows older than time.Now() - maxAge are deleted.
callCleanupOldData ==
    /\ tpc < MaxStorageOps
    /\ \E maxAge \in 0..1, out \in {"ok", "dbErr"} :
         LET cutoff == now - maxAge
         IN  /\ tcall' = StorageCall("CleanupOldData", "", {}, out)
             /\ IF out = "dbErr"
                THEN /\ tret' = StorageRet(<< "failed to cleanup request logs: ",
                                              "sql" >>,
                                           FALSE, {}, << >>, 0, 0)
                     /\ UNCHANGED << store, logged >>
                ELSE /\ tret' = StorageRet(NoErr, TRUE, {}, << >>, 0, 0)
                     /\ store' = cleanupTables(store, cutoff)
                     /\ logged' = logged - Cardinality(
                                     { r \in store.request_logs :
                                         r.timestamp < cutoff })
    /\ tpc' = tpc + 1
    /\ UNCHANGED << saved, envVars, mgrVars, richVars, srvVars, tabVars,
                    navVars, formVars, sessVars, capVars, storOthers >>

\* GetStats (lines 1220-1245): the error of each COUNT(*) is dropped and
\* the count is then 0.
callGetStats ==
    /\ tpc < MaxStorageOps
    /\ \E out \in {"ok", "dbErr"} :
         /\ tcall' = StorageCall("GetStats", "", {}, out)
         /\ tret' = IF out = "dbErr"
                    THEN StorageRet(NoErr, TRUE, {}, << >>, 0, 0)
                    ELSE StorageRet(NoErr, TRUE, {}, << >>,
                                    Cardinality(store.sessions),
                                    Cardinality(store.request_logs))
    /\ tpc' = tpc + 1
    /\ UNCHANGED << store, saved, logged, envVars, mgrVars, richVars, srvVars,
                    tabVars, navVars, formVars, sessVars, capVars,
                    storOthers >>

\* A second of the clock of the database passes.
\* storage.Manager.SaveScreenshot (lines 1140-1150).
callSaveScreenshot ==
    /\ tpc < MaxStorageOps
    /\ \E out \in {"ok", "dbErr"} :
         /\ tcall' = StorageCall("SaveScreenshot", "", {}, out)
         /\ IF out = "dbErr"
            THEN /\ tret' = StorageRet(<< "failed to save screenshot metadata: ",
                                          "sql" >>,
                                       FALSE, {}, << >>, 0, 0)
                 /\ UNCHANGED store
            ELSE /\ tret' = StorageRet(NoErr, TRUE, {}, << >>, 0, 0)
                 /\ store' = insertScreenshot(store, now)
    /\ tpc' = tpc + 1
    /\ UNCHANGED << saved, logged, envVars, mgrVars, richVars, srvVars,
                    tabVars, navVars, formVars, sessVars, capVars,
                    storOthers >>

timePasses ==
    /\ now < MaxClock
    /\ now' = now + 1
    /\ UNCHANGED << sessionData, handed, cap, envVars, mgrVars, richVars,
                    srvVars, tabVars, navVars, formVars, sessVars, waitVars,
                    primVars, storVars, regVars, domVars, probeVars >>

\* storage.New and Init (lines 922-951) on a new database; no browser is
\* involved.
InitStorage ==
    /\ live = [p \in PortSet |-> FALSE]
    /\ verif = [p \in PortSet |-> FALSE]
    /\ ctxInherits = TRUE
    /\ mgrIdle
    /\ srvUnused
    /\ tabIdle
    /\ present = {}
    /\ navIdle
    /\ formIdle
    /\ sessIdle
    /\ opsIdle

NextStorage ==
    \/ callSaveSession
    \/ callLoadSession
    \/ callDeleteSession
    \/ callListSessions
    \/ callLogRequest
    \/ callCleanupOldData
    \/ callGetStats
    \/ callSaveScreenshot
    \/ timePasses

SpecStorage == InitStorage /\ [][NextStorage]_vars

\* The fields of a SessionData the callers compare.
sameSession(a, b) ==
    /\ a.url = b.url
    /\ a.userAgent = b.userAgent
    /\ a.cookies = b.cookies

C22_DeletedSessionIsGone ==
    /\ (tpc > 0 /\ tcall.op = "LoadSession" /\ ~tcall.stored)
          => (tret.err # NoErr /\ tret.data = {})
    /\ (tpc > 0 /\ tcall.op = "DeleteSession" /\ ~tcall.stored)
          => (tret.err # NoErr /\ store = tcall.before)

\* A session was saved and deleted, and the LoadSession after it failed
\* with "not found".
C22_Witness ==
    /\ tpc = 3
    /\ tcall.op = "LoadSession"
    /\ ~tcall.dbFailed
    /\ store.seq = 1
    /\ store.sessions = {}
    /\ tret.err = << "session '", tcall.name, "' not found" >>

MaxElems == 2

SingleQuote == "'"

DoubleQuote == "\""

Blank == " "

\* JavaScript that ends one Array.from(...) call with a map that removes
\* the elements and opens another Array.from(document.querySelectorAll( .
RemoveCall ==
    ")).map(el => el.remove()),Array.from(document.querySelectorAll("

\* The strings the callers pass as selector: CSS selectors, and a string
\* with single quotes and JavaScript between them.
ExtractSelectors ==
    { << "h1" >>,
      << "input[type=", SingleQuote, "submit", SingleQuote, "]" >>,
      << "input[type=", DoubleQuote, "submit", DoubleQuote, "]" >>,
      << "h1", SingleQuote, RemoveCall, SingleQuote, "h1" >> }

\* The elements a page is made of.
Elements ==
    [kind : { "h1", "submit" },
     textContent : { << "A" >>, << Blank, "B", Blank >> }]

\* The element el matches the CSS selector sel.
matchesSelector(el, sel) ==
    \/ sel = << "h1" >> /\ el.kind = "h1"
    \/ /\ Len(sel) = 5
       /\ sel[1] = "input[type=" /\ sel[3] = "submit" /\ sel[5] = "]"
       /\ sel[2] = sel[4] /\ sel[2] \in { SingleQuote, DoubleQuote }
       /\ el.kind = "submit"

RECURSIVE querySelectorAll(_, _)
\* document.querySelectorAll(sel): the matching elements in document order.
querySelectorAll(page, sel) ==
    IF page = << >> THEN << >>
    ELSE (IF matchesSelector(Head(page), sel) THEN << Head(page) >>
          ELSE << >>) \o querySelectorAll(Tail(page), sel)

RECURSIVE trimLeft(_)
trimLeft(t) ==
    IF t # << >> /\ Head(t) = Blank THEN trimLeft(Tail(t)) ELSE t

RECURSIVE trimRight(_)
trimRight(t) ==
    IF t # << >> /\ t[Len(t)] = Blank
    THEN trimRight(SubSeq(t, 1, Len(t) - 1)) ELSE t

\* String.prototype.trim.
trim(t) == trimRight(trimLeft(t))

\* What follows the selector in the script of line 295.
scriptTail == << SingleQuote, ")).map(el => el.textContent.trim())" >>

\* fmt.Sprintf of lines 294-296: the selector is put between two single
\* quotes as it is.
extractScript(selector) ==
    << "Array.from(document.querySelectorAll(", SingleQuote >>
        \o selector \o scriptTail

\* The index of the first piece of s at or after i that is a single quote,
\* 0 when there is none.
RECURSIVE quoteAt(_, _)
quoteAt(s, i) ==
    IF i > Len(s) THEN 0
    ELSE IF s[i] = SingleQuote THEN i
    ELSE quoteAt(s, i + 1)

\* The script from piece i on, i being the first piece of a string
\* literal, is the rest of a sequence of Array.from(...).map(...) calls.
RECURSIVE parsesFrom(_, _)
parsesFrom(script, i) ==
    LET close == quoteAt(script, i)
    IN  /\ close # 0
        /\ \/ SubSeq(script, close, Len(script)) = scriptTail
           \/ /\ close + 2 <= Len(script)
              /\ script[close + 1] = RemoveCall
              /\ script[close + 2] = SingleQuote
              /\ parsesFrom(script, close + 3)

\* The page without the elements that match sel.
RECURSIVE removeAll(_, _)
removeAll(page, sel) ==
    IF page = << >> THEN << >>
    ELSE (IF matchesSelector(Head(page), sel) THEN << >>
          ELSE << Head(page) >>) \o removeAll(Tail(page), sel)

\* The calls of a script that parses, one after the other: a call with
\* el.remove() takes its elements out of the page, the last call gives
\* the texts.
RECURSIVE runFrom(_, _, _)
runFrom(script, i, page) ==
    LET close == quoteAt(script, i)
        literal == SubSeq(script, i, close - 1)
    IN  IF SubSeq(script, close, Len(script)) = scriptTail
        THEN LET els == querySelectorAll(page, literal)
             IN  [ok |-> TRUE,
                  texts |-> [k \in DOMAIN els |-> trim(els[k].textContent)],
                  page |-> page]
        ELSE runFrom(script, close + 3, removeAll(page, literal))

\* The page evaluates the script: a string literal that starts at a single
\* quote ends at the next one; a script that does not parse is a
\* SyntaxError and nothing of it runs.
evaluateScript(script, page) ==
    IF parsesFrom(script, 3) THEN runFrom(script, 3, page)
    ELSE [ok |-> FALSE, texts |-> << >>, page |-> page]

\* Manager.ExtractText (lines 290-306).  runOK: the browser answers the
\* Evaluate.
managerExtractText ==
    /\ ppc = "idle"
    /\ ~mctx.cancelled
    /\ \E selector \in ExtractSelectors, runOK \in BOOLEAN :
         LET v == evaluateScript(extractScript(selector), dom)
         IN  /\ pcall' = [op |-> "ExtractText", backend |-> "legacy",
                          selector |-> selector, screenshot |-> FALSE,
                          waitFailed |-> FALSE, browserOK |-> runOK]
             /\ dom' = IF runOK THEN v.page ELSE dom
             /\ primReturns(
                  IF runOK /\ v.ok
                  THEN PrimResult(TRUE, << >>, "", "", v.texts)
                  ELSE PrimResult(FALSE,
                                  << "Text extraction failed: ",
                                     IF runOK THEN "SyntaxError"
                                     ELSE "protocol error" >>,
                                  "", "", << >>))
    /\ UNCHANGED << capVars, waitVars, storVars, regVars, probeVars, envVars,
                    mgrVars,
                    richVars, srvVars, tabVars, navVars, formVars, sessVars >>

\* The page loads: an element is added at the end of the document.
pageGrows ==
    /\ ppc = "idle"
    /\ Len(dom) < MaxElems
    /\ \E el \in Elements : dom' = Append(dom, el)
    /\ UNCHANGED << capVars, waitVars, primVars, storVars, regVars,
                    probeVars, envVars,
                    mgrVars, richVars, srvVars, tabVars, navVars, formVars,
                    sessVars >>

InitExtract ==
    /\ mgrAttached
    /\ srvUnused
    /\ pageURL = "https://a.example"
    /\ pageReady = TRUE
    /\ jar = {}
    /\ rejects = {}
    /\ present = {}
    /\ navIdle
    /\ formIdle
    /\ sessIdle
    /\ opsIdle

NextExtract ==
    \/ managerExtractText
    \/ pageGrows

SpecExtract == InitExtract /\ [][NextExtract]_vars

\* C24: an ExtractText the browser answered returns success with the
\* trimmed text contents of the elements that match its selector, in
\* document order, whatever valid selector it was given.
C24_ExtractTextReturnsMatches ==
    (ppc = "done" /\ pcall.op = "ExtractText" /\ pcall.backend = "legacy"
        /\ pcall.browserOK)
        => LET els == querySelectorAll(dom, pcall.selector)
           IN  /\ pret.success
               /\ pret.text = [i \in DOMAIN els |-> trim(els[i].textContent)]

(***************************************************************************)
(* Properties of the attach of the Manager (Spec).                         *)
(***************************************************************************)

\* C25: from the attach on and until Close is called, m.ctx is not
\* cancelled: the release of the allocator it was derived from leaves it
\* live for testConnection and for the calls after Init.
C25_SessionContextStaysLive ==
    (mctx # NilCtx /\ ~closeCalled) => ~mctx.cancelled

\* C26: when the port the loop is at answers the probe and fails the
\* verification, the loop does not return it and goes on to the next port.
C26_FailedVerificationContinues ==
    [][(/\ mpc = "connect"
        /\ portIdx <= Len(ports)
        /\ isDebugPortAvailable(ports[portIdx])
        /\ ~verif[ports[portIdx]]
        /\ << mpc, portIdx, mctx, attachVia >>'
              # << mpc, portIdx, mctx, attachVia >>)
          => (/\ mpc' = "connect"
              /\ portIdx' = portIdx + 1
              /\ mctx' = mctx
              /\ attachVia' = attachVia)]_vars

\* The first port answered the probe and failed the verification, and the
\* loop has returned the second.
C26_Witness ==
    /\ live[ports[1]]
    /\ ~verif[ports[1]]
    /\ attachVia = "probe"
    /\ mctx.port = ports[2]

\* C27: no port other than the one m.ctx is attached to has a live context
\* or allocator of the Manager, at most one port has one, and when the loop
\* has returned a candidate no port after it was probed.
C27_OthersAbandoned ==
    /\ opened \subseteq (IF mctx = NilCtx THEN {} ELSE {mctx.port})
    /\ Cardinality(opened) <= 1
    /\ attachVia = "probe" => probed \subseteq { ports[i] : i \in 1..portIdx }

\* The first port failed its verification, the second was returned, and
\* the third, which answers too, was left alone.
C27_Witness ==
    /\ \A i \in 1..3 : live[ports[i]]
    /\ ~verif[ports[1]]
    /\ attachVia = "probe"
    /\ opened = {ports[2]}
    /\ probed = {ports[1], ports[2]}

(***************************************************************************)
(* The order of the steps of RestoreSession (SpecSession).                 *)
(***************************************************************************)

\* C28: a RestoreSession of a record with a URL navigates first and sets
\* cookies only after it; one of a record without URL does not navigate.
C28_NavigateBeforeCookies ==
    rpc = "done"
        => LET st == rcall.steps
           IN  /\ rcall.url = "" => \A i \in DOMAIN st : st[i] # "navigate"
               /\ rcall.url # "" => (st # << >> /\ st[1] = "navigate")
               /\ \A i, j \in DOMAIN st :
                    (st[i] = "navigate" /\ st[j] = "setCookie") => i < j

(***************************************************************************)
(* The goroutine of Manager.Navigate (manager.go, lines 244-250).  A call  *)
(* that succeeded has loaded url with chromedp.Navigate (line 210) and     *)
(* then starts m.client.Get(url), which loads url again in the browser of  *)
(* the browserhttp client.  The goroutine outlives the call: it runs       *)
(* between the steps of later calls on the same Manager.                   *)
(***************************************************************************)

InitConfirm ==
    /\ mgrAttached
    /\ srvUnused
    /\ pageURL = "about:blank"
    /\ pageReady = TRUE
    /\ jar = {}
    /\ rejects = {}
    /\ present = {"#main"}
    /\ cpc = [c \in Callers |-> "idle"]
    /\ carg = [c \in Callers |-> [url |-> "", waitFor |-> ""]]
    /\ cres = [c \in Callers |-> NoNavResult]
    /\ loads = [c \in Callers |-> << >>]
    /\ gpc = [c \in Callers |-> "none"]
    /\ clientURL = "about:blank"
    /\ formIdle
    /\ sessIdle
    /\ opsIdle

\* The call c of Navigate is the next one: the calls before it returned.
nextCall(c) == \A d \in Callers : d < c => cpc[d] = "done"

\* A goroutine of Navigate has been started and has not finished.
confirming == \E c \in Callers : gpc[c] = "started"

\* Navigate calls one after the other, GetSessionData and Close while a
\* goroutine is under way, and the goroutines of the calls that returned
\* at any point.
NextConfirm ==
    \/ \E c \in Callers : nextCall(c) /\ handleChromeNavigate(c)
    \/ \E c \in Callers : navigateAction(c)
    \/ pageLoads
    \/ \E c \in Callers : waitReadyAction(c)
    \/ \E c \in Callers : titleAction(c)
    \/ \E c \in Callers : waitVisibleAction(c)
    \/ \E c \in Callers : navTimeout(c)
    \/ \E c \in Callers : confirmGet(c)
    \/ InFlight = {} /\ confirming /\ getSessionDataManager
    \/ InFlight = {} /\ confirming /\ managerClose

SpecConfirm == InitConfirm /\ [][NextConfirm]_vars

\* C29: no call performs its side-effecting action twice or through two
\* executors: the url of a Manager.Navigate call is loaded at most once.
C29_PageLoadedOncePerCall ==
    \A c \in Callers : Len(loads[c]) <= 1

C31_NoOperationAfterClose ==
    [][(\E c \in Callers : gpc[c] = "started" /\ gpc'[c] = "done")
         => ~closeCalled]_vars

\* C32: ExtractText is read-only: whatever string is passed as selector,
\* quote characters included, the call leaves the document, the cookies
\* and the location of the page as they were.
C32_ExtractTextReadOnly ==
    [][(ppc = "idle" /\ ppc' = "done" /\ pcall'.op = "ExtractText")
         => /\ dom' = dom
            /\ jar' = jar
            /\ pageURL' = pageURL]_vars

\* C33: a stored session goes away only by DeleteSession of its name: any
\* other call of storage.Manager, a SaveSession under another name
\* included, leaves the name and the data of every stored session as they
\* were.
C33_OnlyDeleteRemovesSessions ==
    [][\A r \in store.sessions :
         (tpc' = tpc + 1
            /\ ~(tcall'.op \in {"DeleteSession", "SaveSession"}
                   /\ tcall'.name = r.name))
           => \E q \in store'.sessions : q.name = r.name /\ q.data = r.data]_vars

\* A CleanupOldData has deleted a request log while a session that is as
\* old as the log is stored.
C33_Witness ==
    /\ tpc > 0
    /\ tcall.op = "CleanupOldData"
    /\ ~tcall.dbFailed
    /\ \E l \in tcall.before.request_logs, r \in store.sessions :
         /\ l \notin store.request_logs
         /\ r.updated_at <= l.timestamp

(***************************************************************************)
(* session_save while the browser is in use: between two calls the user    *)
(* moves to another page and the cookies change.                           *)
(***************************************************************************)

NextSave ==
    \/ handleSessionSave
    \/ handleSessionLoad
    \/ browserChanges

SpecSave == InitStore /\ [][NextSave]_vars

\* The record rec carries a URL or cookies that an earlier GetSessionData
\* captured and that the browser did not have when rec was made.
staleCapture(rec) ==
    \E i \in 1..(Len(handed) - 1) :
        \/ /\ rec.url = handed[i].snap.url
           /\ rec.url # ""
           /\ rec.url # cap.url
        \/ /\ rec.cookies = handed[i].snap.cookies
           /\ rec.cookies # << >>
           /\ rec.cookies # seqOf(visible(cap.jar, cap.url))

\* C34: the record that a session_save stores with success=true holds what
\* was read from the browser during that call, never the URL or the cookies
\* of an earlier capture under a new timestamp.
C34_SavedStateIsOfThisCall ==
    (tpc > 0 /\ tcall.tool = "session_save" /\ tcall.name # ""
        /\ ~tret.isError /\ tret.success)
        => ~staleCapture(handed[Len(handed)].snap)

(***************************************************************************)
(* The tool handlers of both servers as functions of the request: the      *)
(* checks of the arguments, the methods of the browser manager and of the  *)
(* storage they call, and the tool result.  A map argument is a sequence   *)
(* of entries, each a key and the kind of its JSON value.                  *)
(***************************************************************************)

\* The parts of a unit of time.Duration in which a timeout argument, a
\* JSON number of seconds, is given.
Sub == 2

\* A timeout argument that was left out, and one of v parts.
NoTimeout == [given |-> FALSE, value |-> 0]

Timeout(v) == [given |-> TRUE, value |-> v]

\* The timeout arguments of chrome_wait_for_element: left out, negative,
\* zero, and positive ones from a part of a unit up.
WaitTimeouts ==
    { NoTimeout } \cup { Timeout(v) : v \in (0 - Sub)..(MaxTimeout * Sub) }

\* mcp.ParseFloat64(request, "timeout", 10) (part_001 line 315), in parts.
parseTimeout(t) == IF t.given THEN t.value ELSE 10 * Second * Sub

\* part_001 lines 316-320: a timeout that is not positive becomes 10, and
\* time.Duration(timeout * float64(time.Second)) drops what is less than
\* a unit.
timeoutDuration(t) ==
    LET timeout == IF parseTimeout(t) <= 0 THEN 10 * Second * Sub
                   ELSE parseTimeout(t)
    IN  timeout \div Sub

NoArgs ==
    [url |-> "", selector |-> "", name |-> "", key |-> "", text |-> "",
     fields |-> << >>, data |-> << >>, submit |-> FALSE,
     timeout |-> NoTimeout]

\* The maps a caller passes as fields or data.
MapArgs ==
    { << >>,
      << [key |-> "#user", kind |-> "string"] >>,
      << [key |-> "#age", kind |-> "number"] >>,
      << [key |-> "#user", kind |-> "string"],
         [key |-> "#age", kind |-> "number"] >> }

\* The tool requests: the arguments a tool reads, each given or left out.
ToolRequests ==
    [server : {"legacy", "enhanced"}, tool : {"chrome_navigate"},
     args : { [NoArgs EXCEPT !.url = u] : u \in {"", "https://a.example"} }]
    \cup
    [server : {"legacy"},
     tool : {"chrome_click", "chrome_extract_text"},
     args : { [NoArgs EXCEPT !.selector = x] : x \in {"", "#main"} }]
    \cup
    [server : {"legacy"}, tool : {"chrome_wait_for_element"},
     args : { [NoArgs EXCEPT !.selector = x, !.timeout = t] :
                x \in {"", "#main"}, t \in WaitTimeouts }]
    \cup
    [server : {"legacy", "enhanced"}, tool : {"chrome_fill_form"},
     args : { [NoArgs EXCEPT !.fields = f, !.submit = b] :
                f \in MapArgs, b \in BOOLEAN }]
    \cup
    [server : {"legacy"}, tool : {"session_save", "session_load"},
     args : { [NoArgs EXCEPT !.name = n] : n \in {"", "s1"} }]
    \cup
    [server : {"enhanced"}, tool : {"chrome_post_json"},
     args : { [NoArgs EXCEPT !.url = u, !.data = d] :
                u \in {"", "https://a.example"}, d \in MapArgs }]
    \cup
    [server : {"enhanced"},
     tool : {"chrome_get_local_storage", "chrome_set_local_storage"},
     args : { [NoArgs EXCEPT !.key = k] : k \in {"", "k"} }]
    \cup
    [server : {"enhanced"}, tool : {"chrome_wait_advanced"},
     args : { [NoArgs EXCEPT !.selector = x, !.text = t] :
                x \in {"", "#main"}, t \in {"", "hello"} }]

\* Checks that leave data of chrome_post_json unchecked.
argumentErrorLax(r) ==
    LET a == r.args
    IN  CASE r.tool \in {"chrome_navigate", "chrome_post_json"} /\ a.url = "" ->
               "URL parameter is required"
          [] r.tool \in {"chrome_click", "chrome_extract_text",
                         "chrome_wait_for_element"} /\ a.selector = "" ->
               "Selector parameter is required"
          [] r.tool = "chrome_fill_form" /\ Len(a.fields) = 0 ->
               "Fields parameter is required"
          [] r.tool \in {"session_save", "session_load"} /\ a.name = "" ->
               "Name parameter is required"
          [] r.tool \in {"chrome_get_local_storage", "chrome_set_local_storage"}
               /\ a.key = "" ->
               "Key parameter is required"
          [] r.tool = "chrome_wait_advanced" /\ a.selector = "" /\ a.text = "" ->
               "Either selector or text parameter is required"
          [] OTHER -> ""

\* The early returns of the handlers (part_001 lines 175-177, 196-198,
\* 213-215, 228-230, 253-255, 269-271, 311-313; enhanced_server.go lines
\* 220-222, 247-249, 370-377, 394-396, 418-420, 441-443): the message of
\* the NewToolResultError, "" when the handler goes on.
argumentError(r) ==
    LET a == r.args
    IN  CASE r.tool \in {"chrome_navigate", "chrome_post_json"} /\ a.url = "" ->
               "URL parameter is required"
          [] r.tool = "chrome_post_json" /\ Len(a.data) = 0 ->
               "Data parameter is required"
          [] r.tool \in {"chrome_click", "chrome_extract_text",
                         "chrome_wait_for_element"} /\ a.selector = "" ->
               "Selector parameter is required"
          [] r.tool = "chrome_fill_form" /\ Len(a.fields) = 0 ->
               "Fields parameter is required"
          [] r.tool \in {"session_save", "session_load"} /\ a.name = "" ->
               "Name parameter is required"
          [] r.tool \in {"chrome_get_local_storage", "chrome_set_local_storage"}
               /\ a.key = "" ->
               "Key parameter is required"
          [] r.tool = "chrome_wait_advanced" /\ a.selector = "" /\ a.text = "" ->
               "Either selector or text parameter is required"
          [] OTHER -> ""

\* The conversion of fieldsMap to map[string]string (part_001 lines
\* 233-238, enhanced_server.go lines 251-256): the entries whose value is
\* a string.
RECURSIVE stringFields(_)
stringFields(m) ==
    IF m = << >> THEN << >>
    ELSE (IF Head(m).kind = "string" THEN << Head(m).key >> ELSE << >>)
             \o stringFields(Tail(m))

\* The keys of all the entries of a map argument.
RECURSIVE allFields(_)
allFields(m) ==
    IF m = << >> THEN << >> ELSE << Head(m).key >> \o allFields(Tail(m))

\* The methods a handler calls once the arguments are accepted, in order,
\* each with the argument that matters.  loaded: LoadSession returned a
\* session.
methodsCalled(r, loaded) ==
    LET a == r.args
        call(op, x) == [op |-> op, arg |-> x]
    IN  CASE r.tool = "chrome_navigate" -> << call("Navigate", << a.url >>) >>
          [] r.tool = "chrome_click" -> << call("Click", << a.selector >>) >>
          [] r.tool = "chrome_extract_text" ->
               << call("ExtractText", << a.selector >>) >>
          [] r.tool = "chrome_wait_for_element" ->
               << [op |-> "WaitForElement", arg |-> << a.selector >>,
                   duration |-> timeoutDuration(a.timeout)] >>
          [] r.tool = "chrome_fill_form" ->
               << [op |-> "FillForm", arg |-> stringFields(a.fields),
                   submit |-> a.submit] >>
          [] r.tool = "session_save" ->
               << call("GetSessionData", << >>),
                  call("SaveSession", << a.name >>) >>
          [] r.tool = "session_load" ->
               << call("LoadSession", << a.name >>) >>
                 \o (IF loaded THEN << call("RestoreSession", << a.name >>) >>
                     ELSE << >>)
          [] r.tool = "chrome_post_json" -> << call("PostJSON", << a.url >>) >>
          [] r.tool = "chrome_get_local_storage" ->
               << call("GetLocalStorage", << a.key >>) >>
          [] r.tool = "chrome_set_local_storage" ->
               << call("SetLocalStorage", << a.key >>) >>
          [] r.tool = "chrome_wait_advanced" ->
               IF a.selector # ""
               THEN << call("WaitForElement", << a.selector >>) >>
               ELSE << >>

\* A handler serves the request r.  out: the last method called returns
\* its result with success ("ok"), with success=false ("fail"), or an
\* error ("err").
serve(r, out) ==
    LET why == argumentError(r)
        calls == methodsCalled(r, out # "err")
    IN  IF why # ""
        THEN [request |-> r, called |-> << >>, isError |-> TRUE,
              success |-> FALSE, msg |-> << why >>]
        ELSE IF calls = << >>
        THEN [request |-> r, called |-> calls, isError |-> FALSE,
              success |-> TRUE, msg |-> << "Wait condition met" >>]
        ELSE [request |-> r, called |-> calls, isError |-> out = "err",
              success |-> out = "ok",
              msg |-> IF r.tool = "chrome_wait_advanced" /\ out = "ok"
                      THEN << "Wait condition met" >> ELSE << >>]

\* One tool call from its arrival to its tool result.
toolCall ==
    /\ \E r \in ToolRequests, out \in {"ok", "fail", "err"} :
         /\ out = "fail" => r.tool \notin { "chrome_wait_for_element",
                                            "chrome_wait_advanced",
                                            "chrome_get_local_storage",
                                            "chrome_set_local_storage" }
         /\ req' = serve(r, out)
    /\ UNCHANGED << tools, capVars, waitVars, primVars, storVars, domVars,
                    probeVars,
                    envVars, mgrVars, richVars, srvVars, tabVars, navVars,
                    formVars, sessVars >>

InitTools ==
    /\ mgrAttached
    /\ srvUnused
    /\ tabIdle
    /\ present = {}
    /\ navIdle
    /\ formIdle
    /\ sessIdle
    /\ opsIdle

NextTools == toolCall

SpecTools == InitTools /\ [][NextTools]_vars

\* A required input of the request r is missing or empty.
inputMissing(r) ==
    LET a == r.args
    IN  \/ r.tool \in {"chrome_navigate", "chrome_post_json"} /\ a.url = ""
        \/ r.tool \in {"chrome_click", "chrome_extract_text",
                       "chrome_wait_for_element"} /\ a.selector = ""
        \/ r.tool = "chrome_fill_form" /\ a.fields = << >>
        \/ r.tool \in {"session_save", "session_load"} /\ a.name = ""
        \/ r.tool \in {"chrome_get_local_storage", "chrome_set_local_storage"}
             /\ a.key = ""
        \/ r.tool = "chrome_post_json" /\ a.data = << >>

\* C35: a tool call whose required input is missing or empty returns an
\* error result and calls no method of the browser manager or the storage.
C35_MissingInputRejected ==
    (req # << >> /\ inputMissing(req.request))
        => req.isError /\ req.called = << >>

\* A chrome_post_json with a url and no data has been rejected.
C35_Witness ==
    /\ req # << >>
    /\ req.request.tool = "chrome_post_json"
    /\ req.request.args.url # ""
    /\ req.request.args.data = << >>
    /\ req.isError
    /\ req.msg = << "Data parameter is required" >>

\* C39: chrome_wait_for_element waits for the timeout of the caller, for
\* 10 seconds when the timeout is left out or not positive, and the
\* duration it hands to WaitForElement is never zero or negative.
C39_WaitDurationPositive ==
    (req # << >> /\ req.request.tool = "chrome_wait_for_element"
        /\ req.called # << >>)
        => LET t == req.request.args.timeout
               d == req.called[1].duration
           IN  /\ (~t.given \/ t.value <= 0) => d = 10 * Second
               /\ (t.given /\ t.value > 0) => d = t.value \div Sub
               /\ d > 0

\* C37: chrome_wait_advanced returns success only if every condition of
\* the call, the selector and the text, was waited for and observed: a
\* call that gives a text has had a wait for that text.
C37_WaitAdvancedObservedAll ==
    (req # << >> /\ req.request.tool = "chrome_wait_advanced"
        /\ ~req.isError /\ req.success)
        => LET a == req.request.args
           IN  /\ a.selector # ""
                    => \E i \in DOMAIN req.called :
                          /\ req.called[i].op = "WaitForElement"
                          /\ req.called[i].arg = << a.selector >>
               /\ a.text # ""
                    => \E i \in DOMAIN req.called :
                          req.called[i].arg = << a.text >>

\* C38: chrome_fill_form reports success only if every field of the fields
\* mapping of the caller was handed to FillForm and typed: no field is
\* dropped for the kind of its value.
C38_FillFormTypedEveryField ==
    (req # << >> /\ req.request.tool = "chrome_fill_form"
        /\ ~req.isError /\ req.success)
        => req.called[1].arg = allFields(req.request.args.fields)

\* C36: a session_load with a name that is not stored returns an error
\* result and does not call RestoreSession: the page and the cookies of
\* the browser are as they were.
C36_UnknownSessionNotRestored ==
    [][(tpc' = tpc + 1 /\ tcall'.tool = "session_load" /\ tcall'.name # ""
          /\ sessionRows(store, tcall'.name) = {})
         => /\ tret'.isError
            /\ rpc' = rpc
            /\ rcall' = rcall
            /\ pageURL' = pageURL
            /\ jar' = jar]_vars

\* A session_load has asked for a name that is not stored, with a working
\* database and another session stored.
C36_Witness ==
    /\ tpc > 0
    /\ tcall.tool = "session_load"
    /\ tcall.name # ""
    /\ ~tcall.dbFailed
    /\ sessionRows(store, tcall.name) = {}
    /\ store.sessions # {}
    /\ tret.isError
    /\ Contains(tret.msg, "' not found")

(***************************************************************************)
(* The probe of a debug endpoint, Manager.isDebugPortAvailable (manager.go *)
(* lines 152-160): one GET of debugURL + "/json" by an http.Client with a  *)
(* Timeout of two seconds.  Times are in seconds.                          *)
(***************************************************************************)

\* http.Client{Timeout: 2 * time.Second} (line 153).
ProbeTimeout == 2

\* What an endpoint does with the GET: it refuses the connection, or it
\* answers with a status code after some seconds.
EndpointAnswers ==
    { [kind |-> "refused", code |-> 0, after |-> 0] }
    \cup [kind : {"status"}, code : {200, 204, 301, 404, 500},
          after : 0..(ProbeTimeout + 1)]

\* client.Get (line 154): the response, or an error when the connection
\* fails or the Timeout runs out first.  late: at the very end of the
\* Timeout, the timer wins.
httpGet(e, late) ==
    IF e.kind = "refused" THEN [err |-> "connection refused", status |-> 0]
    ELSE IF e.after > ProbeTimeout \/ (e.after = ProbeTimeout /\ late)
    THEN [err |-> "Client.Timeout exceeded", status |-> 0]
    ELSE [err |-> "", status |-> e.code]

\* A probe that takes every answer for a live endpoint.
probeAnyStatus(e, late) == httpGet(e, late).err = ""

\* isDebugPortAvailable (lines 152-160) against an endpoint that does e.
probeStatus200(e, late) ==
    LET r == httpGet(e, late)
    IN  IF r.err # "" THEN FALSE ELSE r.status = 200

\* One call of isDebugPortAvailable.
probeCall ==
    /\ \E p \in PortSet, e \in EndpointAnswers, late \in BOOLEAN :
         probe' = [port |-> p, answer |-> e, late |-> late,
                   result |-> probeStatus200(e, late)]
    /\ UNCHANGED << capVars, waitVars, primVars, storVars, regVars, domVars,
                    envVars, mgrVars, richVars, srvVars, tabVars, navVars,
                    formVars, sessVars >>

\* The Manager before Init and after it.
InitProbe ==
    /\ \/ /\ mgrIdle
          /\ live = [p \in PortSet |-> FALSE]
          /\ verif = [p \in PortSet |-> FALSE]
          /\ ctxInherits = TRUE
       \/ mgrAttached
    /\ srvUnused
    /\ tabIdle
    /\ present = {}
    /\ navIdle
    /\ formIdle
    /\ sessIdle
    /\ opsIdle

NextProbe == probeCall

SpecProbe == InitProbe /\ [][NextProbe]_vars

\* C40: the probe returns true exactly when the GET of /json was answered
\* with status 200 within the timeout, false for every transport error and
\* every other status, and it leaves the state of the Manager as it was.
C40_ProbeLiveIffStatus200 ==
    [][probe' # probe
         => /\ probe'.result \in BOOLEAN
            /\ probe'.result
                 => /\ probe'.answer.kind = "status"
                    /\ probe'.answer.code = 200
                    /\ probe'.answer.after <= ProbeTimeout
            /\ (probe'.answer.kind = "status" /\ probe'.answer.code = 200
                  /\ probe'.answer.after < ProbeTimeout)
                 => probe'.result
            /\ UNCHANGED mgrVars]_vars

\* An attached Manager has probed an endpoint that answered 404 in time,
\* and the probe returned false.
C40_Witness ==
    /\ probe # << >>
    /\ probe.answer.kind = "status"
    /\ probe.answer.code = 404
    /\ probe.answer.after < ProbeTimeout
    /\ ~probe.result
    /\ mpc = "ready"

=============================================================================
